---------------------------- MODULE Spec2Model ----------------------------
(***************************************************************************)
(* Events-App: the event query and realtime-sync logic of the Explore and  *)
(* HomeUser screens (pages/Explore.tsx, pages/HomeUser.tsx).               *)
(*                                                                         *)
(* JavaScript strings are sequences of one-character strings, so that      *)
(* trim(), toLowerCase() and template strings are computed character by    *)
(* character.  Instants are local-time milliseconds counted from 00:00 of  *)
(* a Sunday (day 0); a day has 24 hours (no daylight-saving change).       *)
(* An optional value is <<>> (absent: null / undefined) or <<v>>.          *)
(***************************************************************************)
EXTENDS Integers, Sequences, FiniteSets, TLC

VARIABLES
  page,          \* the screen instance on display: "start", "explore", "homeUser", "details",
                 \* "createEvent", "signup", "closed"
  now,           \* the wall clock read by new Date()
  db,            \* ids of the rows of table event_submissions
  regs,          \* rows of table registrations: a sequence of event ids
  searchText,    \* Explore: useState('')
  activeFilter,  \* Explore: useState<FilterKey>('all')
  events,        \* Explore: useState<EventRow[]>([])
  loading,       \* Explore: useState(false)
  debounceRef,   \* Explore: useRef<number | null>(null); 0 is null
  timers,        \* pending setTimeout callbacks of the Explore instance
  inflight,      \* Explore: fetchEvents calls suspended at `await query`
  notifs,        \* change notifications on their way to the subscribed channel(s)
  upcomingEvents,   \* HomeUser: useState<EventItem[]>([])
  trendingEvents,   \* HomeUser: useState<EventItem[]>([])
  loadingUpcoming,  \* HomeUser: useState(true)
  loadingTrending,  \* HomeUser: useState(true)
  hcalls,        \* HomeUser: loadUpcoming, loadTrending and handleJoin calls suspended at an await
  channels,      \* the realtime channels of the client, in the order they were created
  comments,      \* rows of table reddit_comments, in the order they were inserted
  safeId,        \* EventDetails: normalizeId(eventId)
  event,         \* EventDetails: useState<EventRow | null>(null)
  loadingEvent,  \* EventDetails: useState(false), the `loading` of that screen
  errorMsg,      \* EventDetails: useState<string | null>(null)
  discussions,   \* EventDetails: useState<RedditRow[]>([])
  loadingDisc,   \* EventDetails: useState(false)
  dcalls,        \* EventDetails: fetchEvent and fetchDiscussions calls suspended at their await
  dnotifs,       \* INSERT payloads on their way to the discussions channel
  alerts,        \* titles of the Alert.alert dialogs on display, oldest first
  mcalls,        \* CreateEvent and Signup: handlers suspended at an await
  fields,        \* CreateEvent: useState of title, description and location
  posterUrl,     \* CreateEvent: useState<string | null>(null)
  posterUploading,  \* CreateEvent: useState(false)
  saving,        \* CreateEvent: useState(false)
  submitted,     \* rows the form inserted into event_submissions
  email,         \* Signup: useState('')
  canRegister,   \* Signup: the three fields are filled and the passwords match
  signupLoading, \* Signup: useState(false), the `loading` of that screen
  currentPage,   \* App: useState<PageKey>('getStarted')
  loginEmail,    \* Login: useState('')
  loginPassword, \* Login: useState('')
  loginLoading,  \* Login: useState(false), the `loading` of that screen
  loginTimer,    \* Login: the pending setTimeout of handleLogin, with the email it closed over
  chg,           \* observer: filter-state changes of the current burst
  el,            \* observer: ms since the last filter-state change (capped)
  vf,            \* observer: visible fetches issued since the burst began
  textual,       \* observer: every change of the burst left searchText non-empty
  lastq,         \* observer: the query of the last visible fetch issued
  arg,           \* the arguments a function is applied to in isolation
  res            \* what the function returned for them

exploreVars == <<searchText, activeFilter, events, loading, debounceRef, timers, inflight>>
homeVars == <<upcomingEvents, trendingEvents, loadingUpcoming, loadingTrending, hcalls>>
coreVars == <<page, now, db, regs, notifs, channels, exploreVars, homeVars>>
detailVars == <<comments, safeId, event, loadingEvent, errorMsg, discussions, loadingDisc,
                dcalls, dnotifs>>
formVars == <<alerts, mcalls, fields, posterUrl, posterUploading, saving, submitted,
              email, canRegister, signupLoading>>
obsVars == <<chg, el, vf, textual, lastq>>
pureVars == <<arg, res>>
navVars == <<currentPage, loginEmail, loginPassword, loginLoading, loginTimer>>
otherVars == <<obsVars, pureVars, detailVars, formVars, navVars>>

-----------------------------------------------------------------------------
(* Strings and optional values *)

None == <<>>
Some(v) == <<v>>

Whitespace == {" ", "\t", "\n"}

LowerOf == [c \in {"A", "O", "S", "T"} |->
              CASE c = "A" -> "a" [] c = "O" -> "o" [] c = "S" -> "s" [] c = "T" -> "t"]

\* String.prototype.toLowerCase, one character
LowerChar(c) == IF c \in DOMAIN LowerOf THEN LowerOf[c] ELSE c

\* String.prototype.toLowerCase
toLowerCase(s) == [i \in 1..Len(s) |-> LowerChar(s[i])]

RECURSIVE TrimStart(_)
TrimStart(s) == IF s # <<>> /\ Head(s) \in Whitespace THEN TrimStart(Tail(s)) ELSE s

RECURSIVE TrimEnd(_)
TrimEnd(s) ==
  IF s # <<>> /\ s[Len(s)] \in Whitespace THEN TrimEnd(SubSeq(s, 1, Len(s) - 1)) ELSE s

\* String.prototype.trim
trim(s) == TrimEnd(TrimStart(s))

\* a JavaScript value held in a tag list: its typeof and what String(value) gives
JsValue(type, str) == [type |-> type, str |-> str]

\* a string value
StrVal(chars) == JsValue("string", chars)

\* s occurs in t as a contiguous substring
IsSubstring(s, t) ==
  \E i \in 0..(Len(t) - Len(s)) : SubSeq(t, i + 1, i + Len(s)) = s


-----------------------------------------------------------------------------
(* Date arithmetic (JavaScript Date, local time) *)

MsPerDay == 24 * 60 * 60 * 1000
EndOfDayMs == ((23 * 60 + 59) * 60 + 59) * 1000 + 999

getDaySundayIsSeven(t) ==
  IF (t \div MsPerDay) % 7 = 0 THEN 7 ELSE (t \div MsPerDay) % 7

\* Date.prototype.getDay: 0 is Sunday
getDay(t) == (t \div MsPerDay) % 7

\* d.setHours(0, 0, 0, 0)
setHoursStart(t) == (t \div MsPerDay) * MsPerDay

\* d.setHours(23, 59, 59, 999)
setHoursEnd(t) == (t \div MsPerDay) * MsPerDay + EndOfDayMs

addDaysStaysPut(t, k) == t

\* d.setDate(d.getDate() + k)
addDays(t, k) == t + k * MsPerDay

FILTERS == {"all", "today", "tomorrow", "thisWeek", "nextWeek",
            "sports", "tech", "cultural", "workshops", "hackathons"}

CategoryKeys == {"sports", "tech", "cultural", "workshops", "hackathons"}

TimeKeys == {"today", "tomorrow", "thisWeek", "nextWeek"}

\* the characters of a filter key
KeyChars(f) ==
  CASE f = "sports" -> <<"s", "p", "o", "r", "t", "s">>
    [] f = "tech" -> <<"t", "e", "c", "h">>
    [] f = "cultural" -> <<"c", "u", "l", "t", "u", "r", "a", "l">>
    [] f = "workshops" -> <<"w", "o", "r", "k", "s", "h", "o", "p", "s">>
    [] f = "hackathons" -> <<"h", "a", "c", "k", "a", "t", "h", "o", "n", "s">>
    [] OTHER -> <<>>

buildTimeRangeMondayIsToday(filter, t) ==
  CASE filter = "today" ->
         Some([start |-> setHoursStart(t), end |-> setHoursEnd(t)])
    [] filter = "tomorrow" ->
         LET s == setHoursStart(addDays(t, 1))
         IN  Some([start |-> s, end |-> setHoursEnd(s)])
    [] filter = "thisWeek" ->
         LET daysUntilSunday == 7 - getDay(t)
         IN  Some([start |-> setHoursStart(t),
                   end |-> setHoursEnd(addDays(t, daysUntilSunday))])
    [] filter = "nextWeek" ->
         LET daysUntilNextMonday == (8 - getDay(t)) % 7
             s == setHoursStart(addDays(t, daysUntilNextMonday))
         IN  Some([start |-> s, end |-> setHoursEnd(addDays(s, 6))])
    [] OTHER -> None

\* buildTimeRange(filter) evaluated at instant t: None, or <<[start, end]>>
buildTimeRange(filter, t) ==
  CASE filter = "today" ->
         Some([start |-> setHoursStart(t), end |-> setHoursEnd(t)])
    [] filter = "tomorrow" ->
         LET s == setHoursStart(addDays(t, 1))
         IN  Some([start |-> s, end |-> setHoursEnd(s)])
    [] filter = "thisWeek" ->
         LET daysUntilSunday == 7 - getDay(t)
         IN  Some([start |-> setHoursStart(t),
                   end |-> setHoursEnd(addDays(t, daysUntilSunday))])
    [] filter = "nextWeek" ->
         LET m == (8 - getDay(t)) % 7
             daysUntilNextMonday == IF m = 0 THEN 7 ELSE m
             s == setHoursStart(addDays(t, daysUntilNextMonday))
         IN  Some([start |-> s, end |-> setHoursEnd(addDays(s, 6))])
    [] OTHER -> None

-----------------------------------------------------------------------------
(* The queries the screens build (supabase query builder calls) *)

Str_title_ilike == <<"t", "i", "t", "l", "e", ".", "i", "l", "i", "k", "e", ".">>
Str_location_ilike ==
  <<"l", "o", "c", "a", "t", "i", "o", "n", ".", "i", "l", "i", "k", "e", ".">>

AllowedStatus == {"approved", "pending"}

\* `%${search}%`
LikePattern(search) == <<"%">> \o search \o <<"%">>

\* `title.ilike.${q},location.ilike.${q}`
OrArgument(q) == Str_title_ilike \o q \o <<",">> \o Str_location_ilike \o q

TextPredicateUntrimmed(text) ==
  IF text # <<>> THEN Some(OrArgument(LikePattern(text))) ELSE None

\* the text predicate of fetchEvents: query.or(...) when the trimmed text is non-empty
TextPredicate(text) ==
  LET search == trim(text)
  IN  IF search # <<>> THEN Some(OrArgument(LikePattern(search))) ELSE None

TimePredicateWithoutEnd(filter, t) ==
  LET timeRange == buildTimeRange(filter, t)
  IN  IF timeRange # None
        THEN [gte |-> Some(timeRange[1].start), lte |-> None]
        ELSE [gte |-> Some(t), lte |-> None]

\* the time predicate of fetchEvents
TimePredicate(filter, t) ==
  LET timeRange == buildTimeRange(filter, t)
  IN  IF timeRange # None
        THEN [gte |-> Some(timeRange[1].start), lte |-> Some(timeRange[1].end)]
        ELSE [gte |-> Some(t), lte |-> None]

TagPredicateForEveryKey(filter) ==
  IF filter # "all" THEN Some(KeyChars(filter)) ELSE None

\* the category predicate of fetchEvents: query.contains('tags', [activeFilter])
TagPredicate(filter) ==
  IF filter \in CategoryKeys THEN Some(KeyChars(filter)) ELSE None

\* the query fetchEvents builds for (activeFilter, searchText) at instant t
ExploreQuery(filter, text, t) ==
  [table |-> "event_submissions",
   statusIn |-> Some(AllowedStatus),
   gte |-> TimePredicate(filter, t).gte,
   lte |-> TimePredicate(filter, t).lte,
   contains |-> TagPredicate(filter),
   or |-> TextPredicate(text),
   ordered |-> TRUE,
   limit |-> None]

UpcomingQueryAnyStatus(t) ==
  [table |-> "event_submissions",
   statusIn |-> None,
   gte |-> Some(t), lte |-> None, contains |-> None, or |-> None,
   ordered |-> TRUE,
   limit |-> Some(12)]

\* the query of loadUpcoming
UpcomingQuery(t) ==
  [table |-> "event_submissions",
   statusIn |-> Some(AllowedStatus),
   gte |-> Some(t), lte |-> None, contains |-> None, or |-> None,
   ordered |-> TRUE,
   limit |-> Some(12)]

\* the events query of the trending fallback path
FallbackEventsQuery(t) ==
  [table |-> "event_submissions",
   statusIn |-> Some(AllowedStatus),
   gte |-> Some(t), lte |-> None, contains |-> None, or |-> None,
   ordered |-> FALSE,
   limit |-> None]

\* the events query of handleJoin's refresh
JoinRefreshQuery(t) ==
  [table |-> "event_submissions",
   statusIn |-> Some(AllowedStatus),
   gte |-> Some(t), lte |-> None, contains |-> None, or |-> None,
   ordered |-> FALSE,
   limit |-> Some(12)]

-----------------------------------------------------------------------------
(* The backend: table event_submissions and how it answers a query *)

Hour == 60 * 60 * 1000

\* the instant of the sessions checked: a Wednesday, 10:00
Wed10 == 3 * MsPerDay + 10 * Hour

\* the rows the table may hold, by id
Catalog ==
  [id \in {1, 2, 3} |->
     CASE id = 1 -> [id |-> 1, status |-> "approved",
                     title |-> <<"A", "b">>, location |-> <<"x">>,
                     start_time |-> 8 * MsPerDay + 9 * Hour,
                     tags |-> Some(<<StrVal(<<"S", "p", "o", "r", "t", "s">>)>>)]
       [] id = 2 -> [id |-> 2, status |-> "pending",
                     title |-> <<"b">>, location |-> <<"T", "a">>,
                     start_time |-> 3 * MsPerDay + 18 * Hour,
                     tags |-> Some(<<StrVal(<<"T", "a">>), StrVal(<<"t", "e", "c", "h">>)>>)]
       [] id = 3 -> [id |-> 3, status |-> "rejected",
                     title |-> <<"a">>, location |-> <<"x">>,
                     start_time |-> 3 * MsPerDay + 20 * Hour,
                     tags |-> None]]

RowIds == DOMAIN Catalog

\* the rows inserted and deleted while a screen is open
ChangingRows == {1}

\* the sequences that list every element of S once: the orders a table scan may return
Orders(S) ==
  {s \in [1..Cardinality(S) -> S] : \A i, j \in 1..Cardinality(S) : s[i] = s[j] => i = j}

\* index of the first c in s, 0 when there is none
RECURSIVE IndexOf(_, _)
IndexOf(s, c) ==
  IF s = <<>> THEN 0
  ELSE IF Head(s) = c THEN 1
  ELSE LET k == IndexOf(Tail(s), c) IN IF k = 0 THEN 0 ELSE k + 1

\* s split at every c
RECURSIVE Split(_, _)
Split(s, c) ==
  LET k == IndexOf(s, c)
  IN  IF k = 0 THEN <<s>>
      ELSE <<SubSeq(s, 1, k - 1)>> \o Split(SubSeq(s, k + 1, Len(s)), c)

\* one condition "column.ilike.%term%" against a row
IlikeHolds(cond, row) ==
  LET k == IndexOf(cond, ".")
      column == SubSeq(cond, 1, k - 1)
      rest == SubSeq(cond, k + 1, Len(cond))
      m == IndexOf(rest, ".")
      pattern == SubSeq(rest, m + 1, Len(rest))
      term == toLowerCase(SubSeq(pattern, 2, Len(pattern) - 1))
      value == IF column = <<"t", "i", "t", "l", "e">> THEN row.title ELSE row.location
  IN  IsSubstring(term, toLowerCase(value))

\* whether a row satisfies query q
RowMatches(q, row) ==
  /\ q.statusIn # None => row.status \in q.statusIn[1]
  /\ q.gte # None => row.start_time >= q.gte[1]
  /\ q.lte # None => row.start_time <= q.lte[1]
  /\ q.contains # None =>
       /\ row.tags # None
       /\ \E i \in 1..Len(row.tags[1]) : row.tags[1][i] = StrVal(q.contains[1])
  /\ q.or # None =>
       LET conds == Split(q.or[1], ",")
       IN  \E i \in 1..Len(conds) : IlikeHolds(conds[i], row)

\* the rows of the table that satisfy q
Hits(q) == {id \in db : RowMatches(q, Catalog[id])}

\* x put into s, ordered by start_time ascending, after the rows not later than x
RECURSIVE InsertAscending(_, _)
InsertAscending(x, s) ==
  IF s = <<>> THEN <<x>>
  ELSE IF Head(s).start_time <= x.start_time
         THEN <<Head(s)>> \o InsertAscending(x, Tail(s))
         ELSE <<x>> \o s

\* .order('start_time', { ascending: true })
RECURSIVE OrderAscending(_)
OrderAscending(s) ==
  IF s = <<>> THEN <<>>
  ELSE InsertAscending(s[Len(s)], OrderAscending(SubSeq(s, 1, Len(s) - 1)))

\* .limit(n) and Array.prototype.slice(0, n)
Take(s, n) == IF Len(s) <= n THEN s ELSE SubSeq(s, 1, n)

\* the rows returned for query q when the scan meets its hits in order `scan`
QueryRows(q, scan) ==
  LET hit == [i \in 1..Len(scan) |-> Catalog[scan[i]]]
      sorted == IF q.ordered THEN OrderAscending(hit) ELSE hit
  IN  IF q.limit # None THEN Take(sorted, q.limit[1]) ELSE sorted

-----------------------------------------------------------------------------
(* Result normalization *)

\* (t) => (typeof t === 'string' ? t.toLowerCase() : String(t))
NormalizeTag(t) ==
  IF t.type = "string" THEN StrVal(toLowerCase(t.str)) ELSE StrVal(t.str)

\* fetchEvents: { ...r, tags: (r.tags || []).map(...) }
NormalizeExploreRow(r) ==
  LET tags == IF r.tags # None THEN r.tags[1] ELSE <<>>
  IN  [r EXCEPT !.tags = Some([i \in 1..Len(tags) |-> NormalizeTag(tags[i])])]

NormalizeExplore(rows) == [i \in 1..Len(rows) |-> NormalizeExploreRow(rows[i])]

\* a start_time that is null
NullTime == 0 - 1

\* new Date(t).toLocaleString(): a formatted text, not the instant
toLocaleString(t) == <<"locale", t>>

\* the values `x || undefined` replaces by undefined
Falsy(v) ==
  \/ v.type = "string" /\ v.str = <<>>
  \/ v.type # "string" /\ v.str \in {<<"n", "u", "l", "l">>, <<"0">>,
                                     <<"f", "a", "l", "s", "e">>}

\* ev.tags?.[0] || undefined
FirstTag(ev) ==
  IF ev.tags # None /\ ev.tags[1] # <<>> /\ ~Falsy(ev.tags[1][1])
    THEN Some(ev.tags[1][1]) ELSE None

\* ev.start_time ? new Date(ev.start_time).toLocaleString() : fallback
DisplayTime(ev, fallback) ==
  IF ev.start_time # NullTime THEN Some(toLocaleString(ev.start_time)) ELSE fallback

\* loadUpcoming: the object built from a row
NormalizeUpcomingRow(ev) ==
  [id |-> ev.id, title |-> ev.title, start_time |-> ev.start_time,
   time |-> DisplayTime(ev, IF "time" \in DOMAIN ev THEN ev.time ELSE None),
   location |-> ev.location, tags |-> ev.tags, status |-> ev.status,
   category |-> FirstTag(ev)]

NormalizeUpcoming(rows) == [i \in 1..Len(rows) |-> NormalizeUpcomingRow(rows[i])]

\* handleJoin: the object built from a row of its refresh
JoinRefreshRow(ev) ==
  [id |-> ev.id, title |-> ev.title, start_time |-> ev.start_time,
   time |-> DisplayTime(ev, None), location |-> ev.location, category |-> FirstTag(ev)]

JoinRefresh(rows) == [i \in 1..Len(rows) |-> JoinRefreshRow(rows[i])]

-----------------------------------------------------------------------------
(* Trending *)

\* .limit(8) and slice(0, 8)
TopN == 8

\* counts[id] after the forEach over regs: the entries with a truthy event_id equal to id
RECURSIVE CountRegistrations(_, _)
CountRegistrations(registrations, id) ==
  IF registrations = <<>> THEN 0
  ELSE (IF Head(registrations) # 0 /\ Head(registrations) = id THEN 1 ELSE 0)
       + CountRegistrations(Tail(registrations), id)

\* the object the fallback path builds from an event row
EnrichRow(ev, registrations) ==
  [id |-> ev.id, title |-> ev.title, start_time |-> ev.start_time,
   time |-> DisplayTime(ev, None), location |-> ev.location,
   registration_count |-> CountRegistrations(registrations, ev.id),
   category |-> FirstTag(ev)]

\* x put into s, ordered by registration_count descending, after the rows not below x
RECURSIVE InsertDescending(_, _)
InsertDescending(x, s) ==
  IF s = <<>> THEN <<x>>
  ELSE IF Head(s).registration_count >= x.registration_count
         THEN <<Head(s)>> \o InsertDescending(x, Tail(s))
         ELSE <<x>> \o s

\* enriched.sort((a, b) => b.registration_count - a.registration_count): a stable sort
RECURSIVE SortByCount(_)
SortByCount(s) ==
  IF s = <<>> THEN <<>>
  ELSE InsertDescending(s[Len(s)], SortByCount(SubSeq(s, 1, Len(s) - 1)))

TrendingFallbackUnsorted(eventRows, registrations) ==
  LET enriched == [i \in 1..Len(eventRows) |-> EnrichRow(eventRows[i], registrations)]
  IN  Take(enriched, TopN)

\* the fallback path of loadTrending, from the events and the registrations fetched
TrendingFallback(eventRows, registrations) ==
  LET enriched == [i \in 1..Len(eventRows) |-> EnrichRow(eventRows[i], registrations)]
  IN  Take(SortByCount(enriched), TopN)

\* the object built from a row of the view v_event_submission_regcount
NormalizeViewRow(ev) ==
  [id |-> ev.id, title |-> ev.title, start_time |-> ev.start_time,
   time |-> DisplayTime(ev, None), location |-> ev.location,
   registration_count |-> ev.registration_count, category |-> FirstTag(ev)]

NormalizeView(rows) == [i \in 1..Len(rows) |-> NormalizeViewRow(rows[i])]

\* the rows the view v_event_submission_regcount returns for
\* .order('registration_count', { ascending: false }).limit(8)
ViewRows(scan, registrations) ==
  LET counted == [i \in 1..Len(scan) |->
                    [id |-> scan[i], title |-> Catalog[scan[i]].title,
                     start_time |-> Catalog[scan[i]].start_time,
                     location |-> Catalog[scan[i]].location,
                     tags |-> Catalog[scan[i]].tags,
                     registration_count |-> CountRegistrations(registrations, scan[i])]]
  IN  Take(SortByCount(counted), TopN)

-----------------------------------------------------------------------------
(* Bounds of the model *)

\* fetches of one screen that may be suspended at the same time
MaxInFlight == 2
\* notifications that may be on their way at the same time
MaxNotifs == 1
\* setTimeout callbacks that may be pending at the same time
MaxTimers == 2
\* rows the registrations table may come to hold while a screen is open
MaxJoins == 1
MaxComments == 2
MaxSubmits == 1
FieldInputs == {<<>>, <<" ">>, <<"a">>}
EmailInputs == {"", "s@vitstudent.ac.in", "A@Gmail.com", "x@example.org"}
AwaitOutcomes == {"data", "error", "throw"}
\* what selectedDate and selectedHour make: a date, or none
DateInputs == {"valid", "invalid"}
DetailIds == {1, 2}
CreatedInputs == {1, 2}
DiscLimit == 200

\* setTimeout(..., 400)
DebounceMs == 400
\* the clock advances in steps of 100 ms
StepMs == DebounceMs \div 4

\* the search texts the user types
SearchInputs == {<<>>, <<"a">>}
\* the filter keys the user presses
FilterInputs == {"all", "today", "tech"}

-----------------------------------------------------------------------------
(* Realtime channels *)

\* supabase.channel(topic).on('postgres_changes', { table, filter }, callback)
Channel(topic, table, filter) == [topic |-> topic, table |-> table, filter |-> filter]

ExploreChannel == Channel("public:event_submissions_changes", "event_submissions", None)
UpcomingChannel == Channel("public:event_submissions_upcoming", "event_submissions", None)
RegistrationsChannel == Channel("public:registrations_changes", "registrations", None)

Subscribed(channel) == \E k \in 1..Len(channels) : channels[k] = channel

\* .subscribe(): the client lists the channel
subscribe(list, channel) == Append(list, channel)

removeChannelKeepsIt(list, channel) == list

\* supabase.removeChannel(channel): the client forgets the channel
removeChannel(list, channel) ==
  IF \E k \in 1..Len(list) : list[k] = channel
    THEN LET k == CHOOSE j \in 1..Len(list) :
                    list[j] = channel /\ \A h \in 1..(j - 1) : list[h] # channel
         IN  SubSeq(list, 1, k - 1) \o SubSeq(list, k + 1, Len(list))
    ELSE list

\* a change of `table` is sent to every subscribed channel that listens to the table
Notify(table) ==
  LET listening == SelectSeq(channels, LAMBDA c : c.table = table)
  IN  notifs \o [k \in 1..Len(listening) |-> table]

-----------------------------------------------------------------------------
(* Explore *)

\* a fetchEvents call suspended at `await query`: the filter state its closure holds,
\* the instant it read, the query it built and its option
FetchCall(filter, text, bypassLoading) ==
  [filter |-> filter, text |-> text, at |-> now,
   q |-> ExploreQuery(filter, text, now), bypass |-> bypassLoading]

\* clearTimeout(id)
clearTimeout(pending, id) == {t \in pending : t.id # id}

\* the id setTimeout returns: one no pending timer and no kept reference holds
NewTimerId(pending, ref) ==
  CHOOSE n \in 1..(MaxTimers + 2) :
    /\ n # ref
    /\ \A t \in pending : t.id # n
    /\ \A m \in 1..(n - 1) : m = ref \/ \E t \in pending : t.id = m

CleanupTimersKeepsTimer == timers

\* the cleanup the debounce effect returned, when it returned one (searchText was not '')
CleanupTimers ==
  IF searchText # <<>> /\ debounceRef # 0 THEN clearTimeout(timers, debounceRef) ELSE timers

CleanupRef == IF searchText # <<>> THEN 0 ELSE debounceRef

DebounceTimersHalfDelay(filter, text) ==
  LET cleared == IF CleanupRef # 0 THEN clearTimeout(CleanupTimers, CleanupRef)
                 ELSE CleanupTimers
  IN  IF text = <<>> THEN cleared
      ELSE cleared \cup {[id |-> NewTimerId(cleared, CleanupRef), left |-> DebounceMs \div 2,
                          filter |-> filter, text |-> text]}

DebounceTimersNeverSet(filter, text) ==
  IF CleanupRef # 0 THEN clearTimeout(CleanupTimers, CleanupRef) ELSE CleanupTimers

\* the timers after the debounce effect ran for (filter, text): the pending one is
\* cleared, and a new one is set when text is not ''
DebounceTimers(filter, text) ==
  LET cleared == IF CleanupRef # 0 THEN clearTimeout(CleanupTimers, CleanupRef)
                 ELSE CleanupTimers
  IN  IF text = <<>> THEN cleared
      ELSE cleared \cup {[id |-> NewTimerId(cleared, CleanupRef), left |-> DebounceMs,
                          filter |-> filter, text |-> text]}

DebounceRefAfter(filter, text) ==
  LET cleared == IF CleanupRef # 0 THEN clearTimeout(CleanupTimers, CleanupRef)
                 ELSE CleanupTimers
  IN  IF text = <<>> THEN CleanupRef ELSE NewTimerId(cleared, CleanupRef)

\* a render with a new filter state: the cleanups of both effects, then the effects.
\* The debounce effect fetches at once when text is '', else sets the timer; the
\* realtime effect replaces the channel, and what was sent to the old one is dropped.
Commit(filter, text) ==
  /\ page = "explore"
  /\ filter # activeFilter \/ text # searchText
  /\ activeFilter' = filter
  /\ searchText' = text
  /\ timers' = DebounceTimers(filter, text)
  /\ debounceRef' = DebounceRefAfter(filter, text)
  /\ Cardinality(timers') <= MaxTimers
  /\ IF text = <<>>
       THEN /\ Len(inflight) < MaxInFlight
            /\ inflight' = Append(inflight, FetchCall(filter, text, FALSE))
            /\ loading' = TRUE
       ELSE UNCHANGED <<inflight, loading>>
  /\ notifs' = <<>>
  /\ channels' = subscribe(removeChannel(channels, ExploreChannel), ExploreChannel)
  /\ UNCHANGED <<page, now, db, regs, events, homeVars>>

\* onChangeText={setSearchText}, and the Clear button
SetSearchText(text) == Commit(activeFilter, text)

\* onPress={() => setActiveFilter(filter)}
SetActiveFilter(filter) == Commit(filter, searchText)

\* the Reset button: setActiveFilter('all'); setSearchText('')
ResetFilters == Commit("all", <<>>)

\* the screen is mounted: the state of the useState calls, then both effects
OpenExplore ==
  /\ page = "start"
  /\ page' = "explore"
  /\ searchText' = <<>>
  /\ activeFilter' = "all"
  /\ events' = <<>>
  /\ debounceRef' = 0
  /\ timers' = {}
  /\ inflight' = <<FetchCall("all", <<>>, FALSE)>>
  /\ loading' = TRUE
  /\ notifs' = <<>>
  /\ channels' = subscribe(channels, ExploreChannel)
  /\ UNCHANGED <<now, db, regs, homeVars>>

\* 100 ms pass; a timer that is due fires before more time passes
Tick ==
  /\ page = "explore"
  /\ \A t \in timers : t.left > 0
  /\ timers' = {[t EXCEPT !.left = t.left - StepMs] : t \in timers}
  /\ UNCHANGED <<page, now, channels, db, regs, searchText, activeFilter, events, loading,
                 debounceRef, inflight, notifs, homeVars>>

\* the debounce timer fires: fetchEvents() of the render that set it
TimerFire(t) ==
  /\ page = "explore"
  /\ t \in timers
  /\ t.left = 0
  /\ Len(inflight) < MaxInFlight
  /\ timers' = timers \ {t}
  /\ inflight' = Append(inflight, FetchCall(t.filter, t.text, FALSE))
  /\ loading' = TRUE
  /\ UNCHANGED <<page, now, channels, db, regs, searchText, activeFilter, events,
                 debounceRef, notifs,
                 homeVars>>

\* the channel's callback runs: fetchEvents({ bypassLoading: true })
ExploreNotified ==
  /\ Subscribed(ExploreChannel)
  /\ notifs # <<>>
  /\ Len(inflight) < MaxInFlight
  /\ notifs' = Tail(notifs)
  /\ inflight' = Append(inflight, FetchCall(activeFilter, searchText, TRUE))
  /\ UNCHANGED <<page, now, channels, db, regs, searchText, activeFilter, events, loading,
                 debounceRef, timers, homeVars>>

RemoveAt(s, i) == SubSeq(s, 1, i - 1) \o SubSeq(s, i + 1, Len(s))

\* what `await query` may end with: the rows of some scan of the table, an error
\* result, or a thrown exception
Responses(q) ==
  {[outcome |-> "data", rows |-> QueryRows(q, scan)] : scan \in Orders(Hits(q))}
    \cup {[outcome |-> o, rows |-> <<>>] : o \in {"error", "throw"}}

FetchedEventsKeptOnFailure(r) ==
  IF r.outcome = "data" THEN NormalizeExplore(r.rows) ELSE events

FetchedEventsAppended(r) ==
  IF r.outcome = "data" THEN events \o NormalizeExplore(r.rows) ELSE <<>>

\* the list fetchEvents sets when `await query` ends with response r
FetchedEvents(r) ==
  IF r.outcome = "data" THEN NormalizeExplore(r.rows) ELSE <<>>

LoadingAfterAlwaysCleared(call) == FALSE

\* the loading flag after the finally block of fetchEvents
LoadingAfter(call) == IF call.bypass THEN loading ELSE FALSE

FetchResolvesLatestOnly(i, r) ==
  /\ page \in {"explore", "closed"}
  /\ i \in 1..Len(inflight)
  /\ inflight' = RemoveAt(inflight, i)
  /\ IF page = "explore" /\ i = Len(inflight)
       THEN /\ events' = FetchedEvents(r)
            /\ loading' = LoadingAfter(inflight[i])
       ELSE UNCHANGED <<events, loading>>
  /\ UNCHANGED <<page, now, channels, db, regs, searchText, activeFilter, debounceRef, timers,
                 notifs, homeVars>>

\* `await query` of the i-th suspended fetchEvents call ends; the state of a screen
\* that is no longer mounted does not change
FetchResolves(i, r) ==
  /\ page \in {"explore", "closed"}
  /\ i \in 1..Len(inflight)
  /\ inflight' = RemoveAt(inflight, i)
  /\ IF page = "explore"
       THEN /\ events' = FetchedEvents(r)
            /\ loading' = LoadingAfter(inflight[i])
       ELSE UNCHANGED <<events, loading>>
  /\ UNCHANGED <<page, now, channels, db, regs, searchText, activeFilter, debounceRef,
                 timers, notifs,
                 homeVars>>

\* the screen is left: the cleanups of both effects
CloseExplore ==
  /\ page = "explore"
  /\ page' = "closed"
  /\ timers' = CleanupTimers
  /\ debounceRef' = CleanupRef
  /\ notifs' = <<>>
  /\ channels' = removeChannel(channels, ExploreChannel)
  /\ UNCHANGED <<now, db, regs, searchText, activeFilter, events, loading, inflight, homeVars>>

-----------------------------------------------------------------------------
(* HomeUser *)

\* loadUpcoming() up to its await
UpcomingCall == [op |-> "upcoming", q |-> UpcomingQuery(now), id |-> 0]

\* loadTrending() up to its first await: the query of the view
TrendingCall == [op |-> "trendingView", q |-> FallbackEventsQuery(now), id |-> 0]

\* loadTrending() at `await Promise.all([eventsP, regsP])`
FallbackCall == [op |-> "trendingFallback", q |-> FallbackEventsQuery(now), id |-> 0]

\* handleJoin(eventId) at its three awaits; eventId is not read after the insert
JoinInsertCall(eventId) == [op |-> "joinInsert", q |-> JoinRefreshQuery(now), id |-> eventId]
JoinEventsCall == [op |-> "joinEvents", q |-> JoinRefreshQuery(now), id |-> 0]
JoinTrendingCall == [op |-> "joinTrending", q |-> JoinRefreshQuery(now), id |-> 0]

\* suspended calls have no order among them: hcalls lists them by CallRank
CallRank(c) ==
  CASE c.op = "upcoming" -> 1
    [] c.op = "trendingView" -> 2
    [] c.op = "trendingFallback" -> 3
    [] c.op = "joinInsert" -> 4 + c.id
    [] c.op = "joinEvents" -> 5 + Cardinality(RowIds)
    [] c.op = "joinTrending" -> 6 + Cardinality(RowIds)

\* call c joins the suspended calls
RECURSIVE Suspend(_, _)
Suspend(calls, c) ==
  IF calls = <<>> THEN <<c>>
  ELSE IF CallRank(Head(calls)) <= CallRank(c)
         THEN <<Head(calls)>> \o Suspend(Tail(calls), c)
         ELSE <<c>> \o calls

\* what the view's query may end with
ViewResponses ==
  {[outcome |-> "data", rows |-> ViewRows(scan, regs)] : scan \in Orders(db)}
    \cup {[outcome |-> o, rows |-> <<>>] : o \in {"error", "throw"}}

\* what the registrations fetch of the fallback path yields: regsRes.data || []
RegistrationResults == {regs, <<>>}

\* the screen is mounted: loadUpcoming(); loadTrending(); both channels subscribed
OpenHomeUser ==
  /\ page = "start"
  /\ page' = "homeUser"
  /\ upcomingEvents' = <<>>
  /\ trendingEvents' = <<>>
  /\ loadingUpcoming' = TRUE
  /\ loadingTrending' = TRUE
  /\ hcalls' = <<UpcomingCall, TrendingCall>>
  /\ notifs' = <<>>
  /\ channels' = subscribe(subscribe(channels, UpcomingChannel), RegistrationsChannel)
  /\ UNCHANGED <<now, db, regs, exploreVars>>

\* a channel's callback runs: a change of event_submissions reloads both lists, a
\* change of registrations the trending list
HomeNotified ==
  /\ notifs # <<>>
  /\ notifs' = Tail(notifs)
  /\ IF Head(notifs) = "event_submissions"
       THEN /\ Subscribed(UpcomingChannel)
            /\ hcalls' = Suspend(Suspend(hcalls, UpcomingCall), TrendingCall)
            /\ loadingUpcoming' = (page = "homeUser" \/ loadingUpcoming)
            /\ loadingTrending' = (page = "homeUser" \/ loadingTrending)
       ELSE /\ Subscribed(RegistrationsChannel)
            /\ hcalls' = Suspend(hcalls, TrendingCall)
            /\ loadingTrending' = (page = "homeUser" \/ loadingTrending)
            /\ UNCHANGED loadingUpcoming
  /\ Len(hcalls') <= MaxInFlight
  /\ UNCHANGED <<page, now, channels, db, regs, upcomingEvents, trendingEvents, exploreVars>>

\* `await` of the i-th loadUpcoming call ends with r; nothing is set once the effect's
\* cleanup has cleared `mounted`
UpcomingResolves(i, r) ==
  /\ i \in 1..Len(hcalls)
  /\ hcalls[i].op = "upcoming"
  /\ hcalls' = RemoveAt(hcalls, i)
  /\ IF page = "homeUser"
       THEN /\ upcomingEvents' = IF r.outcome = "data" THEN NormalizeUpcoming(r.rows) ELSE <<>>
            /\ loadingUpcoming' = FALSE
       ELSE UNCHANGED <<upcomingEvents, loadingUpcoming>>
  /\ UNCHANGED <<page, now, channels, db, regs, notifs, trendingEvents, loadingTrending,
                 exploreVars>>

\* the view's query of the i-th loadTrending call ends with r: its rows are shown, or
\* (error, or no data) the fallback path begins
TrendingViewResolves(i, r) ==
  /\ i \in 1..Len(hcalls)
  /\ hcalls[i].op = "trendingView"
  /\ IF r.outcome = "error"
       THEN /\ hcalls' = Suspend(RemoveAt(hcalls, i), FallbackCall)
            /\ UNCHANGED <<trendingEvents, loadingTrending>>
       ELSE /\ hcalls' = RemoveAt(hcalls, i)
            /\ IF page = "homeUser"
                 THEN /\ trendingEvents' =
                           IF r.outcome = "data" THEN NormalizeView(r.rows) ELSE <<>>
                      /\ loadingTrending' = FALSE
                 ELSE UNCHANGED <<trendingEvents, loadingTrending>>
  /\ UNCHANGED <<page, now, channels, db, regs, notifs, upcomingEvents, loadingUpcoming,
                 exploreVars>>

FallbackResultKeptOnError(eventsRes, registrations) ==
  IF eventsRes.outcome # "data" THEN trendingEvents
  ELSE TrendingFallback(eventsRes.rows, registrations)

\* the list the fallback path sets: from eventsRes.data || [] and regsRes.data || [],
\* or [] when the await throws
FallbackResult(eventsRes, registrations) ==
  IF eventsRes.outcome = "throw" THEN <<>>
  ELSE TrendingFallback(eventsRes.rows, registrations)

\* Promise.all of the fallback path of the i-th loadTrending call ends
TrendingFallbackResolves(i, eventsRes, registrations) ==
  /\ i \in 1..Len(hcalls)
  /\ hcalls[i].op = "trendingFallback"
  /\ hcalls' = RemoveAt(hcalls, i)
  /\ IF page = "homeUser"
       THEN /\ trendingEvents' = FallbackResult(eventsRes, registrations)
            /\ loadingTrending' = FALSE
       ELSE UNCHANGED <<trendingEvents, loadingTrending>>
  /\ UNCHANGED <<page, now, channels, db, regs, notifs, upcomingEvents, loadingUpcoming,
                 exploreVars>>

\* the Join button of a listed event: handleJoin(eventId) up to the insert
handleJoin(eventId) ==
  /\ page = "homeUser"
  /\ ~loadingUpcoming
  /\ \E k \in 1..Len(upcomingEvents) : upcomingEvents[k].id = eventId
  /\ Len(hcalls) < MaxInFlight
  /\ Len(regs) < MaxJoins
  /\ hcalls' = Suspend(hcalls, JoinInsertCall(eventId))
  /\ UNCHANGED <<page, now, channels, db, regs, notifs, upcomingEvents, trendingEvents,
                 loadingUpcoming, loadingTrending, exploreVars>>

\* the insert of the i-th handleJoin call ends: on an error or an exception the handler
\* returns; else the row is in the table and the refresh of the lists begins
JoinInsertResolves(i, outcome) ==
  /\ i \in 1..Len(hcalls)
  /\ hcalls[i].op = "joinInsert"
  /\ IF outcome = "data"
       THEN /\ regs' = Append(regs, hcalls[i].id)
            /\ notifs' = Notify("registrations")
            /\ Len(notifs') <= MaxNotifs
            /\ hcalls' = Suspend(RemoveAt(hcalls, i), JoinEventsCall)
       ELSE /\ hcalls' = RemoveAt(hcalls, i)
            /\ UNCHANGED <<regs, notifs>>
  /\ UNCHANGED <<page, now, channels, db, upcomingEvents, trendingEvents,
                 loadingUpcoming, loadingTrending, exploreVars>>

\* the events query of the i-th handleJoin call ends: its rows, when there are any,
\* replace the upcoming list; an exception ends the handler
JoinEventsResolves(i, r) ==
  /\ i \in 1..Len(hcalls)
  /\ hcalls[i].op = "joinEvents"
  /\ hcalls' = IF r.outcome = "throw" THEN RemoveAt(hcalls, i)
               ELSE Suspend(RemoveAt(hcalls, i), JoinTrendingCall)
  /\ upcomingEvents' = IF r.outcome = "data" /\ page = "homeUser"
                         THEN JoinRefresh(r.rows) ELSE upcomingEvents
  /\ UNCHANGED <<page, now, channels, db, regs, notifs, trendingEvents,
                 loadingUpcoming, loadingTrending, exploreVars>>

\* the view's query of the i-th handleJoin call ends
JoinTrendingResolves(i, r) ==
  /\ i \in 1..Len(hcalls)
  /\ hcalls[i].op = "joinTrending"
  /\ hcalls' = RemoveAt(hcalls, i)
  /\ trendingEvents' = IF r.outcome = "data" /\ page = "homeUser"
                         THEN NormalizeView(r.rows) ELSE trendingEvents
  /\ UNCHANGED <<page, now, channels, db, regs, notifs, upcomingEvents,
                 loadingUpcoming, loadingTrending, exploreVars>>

\* the screen is left: the effect's cleanup clears `mounted` and removes both channels
CloseHomeUser ==
  /\ page = "homeUser"
  /\ page' = "closed"
  /\ notifs' = <<>>
  /\ channels' = removeChannel(removeChannel(channels, UpcomingChannel), RegistrationsChannel)
  /\ UNCHANGED <<now, db, regs, exploreVars, homeVars>>

-----------------------------------------------------------------------------
(* EventDetails *)

\* the eventId prop: null, a string ('' when id is None) or an object (without id when
\* id is None)
RawIds ==
  {[type |-> "null", id |-> None]}
    \cup {[type |-> t, id |-> i] : t \in {"string", "object"},
                                   i \in {None} \cup {Some(e) : e \in DetailIds}}

normalizeId(raw) == IF raw.type \in {"string", "object"} THEN raw.id ELSE None

\* a row of reddit_comments
RedditRow(id, eventId, created) == [id |-> id, event_id |-> eventId, created_utc |-> created]

DiscussionsQueryUnlimited(table, eventId) ==
  SortSeq(SelectSeq(table, LAMBDA c : c.event_id = eventId),
          LAMBDA a, b : a.created_utc > b.created_utc)

\* .eq('event_id', safeId).order('created_utc', { ascending: false }).limit(200)
DiscussionsQuery(table, eventId) ==
  Take(SortSeq(SelectSeq(table, LAMBDA c : c.event_id = eventId),
               LAMBDA a, b : a.created_utc > b.created_utc),
       DiscLimit)

DiscussionsChannel(eventId) ==
  Channel("event_discussions_${safeId}", "reddit_comments", Some(eventId))

\* fetchEvent() and fetchDiscussions() up to their await; `issued` is the size of
\* reddit_comments when the request left
EventCall(eventId) == [op |-> "event", id |-> eventId, issued |-> Len(comments)]
DiscussionsCall(eventId) == [op |-> "discussions", id |-> eventId, issued |-> Len(comments)]

\* what `await` can produce for fetchEvent: .single() gives the row or an error
EventOutcomes(call) == (IF call.id \in db THEN {"data"} ELSE {}) \cup {"error", "throw"}

\* what `await` can produce for fetchDiscussions: the rows the query selected at an
\* instant between the request and the response, or a failure
DiscussionResponses(call) ==
  {[outcome |-> "data", rows |-> DiscussionsQuery(SubSeq(comments, 1, n), call.id)] :
      n \in call.issued..Len(comments)}
    \cup {[outcome |-> o, rows |-> <<>>] : o \in {"error", "throw"}}

\* the screen is mounted: the state of the useState calls, then the effect, which returns
\* at once when safeId is null
OpenDetails(raw) ==
  LET id == normalizeId(raw)
  IN  /\ page = "start"
      /\ page' = "details"
      /\ safeId' = id
      /\ event' = None
      /\ errorMsg' = None
      /\ discussions' = <<>>
      /\ dnotifs' = <<>>
      /\ IF id = None
           THEN /\ loadingEvent' = FALSE
                /\ loadingDisc' = FALSE
                /\ dcalls' = <<>>
                /\ UNCHANGED channels
           ELSE /\ loadingEvent' = TRUE
                /\ loadingDisc' = TRUE
                /\ dcalls' = <<EventCall(id[1]), DiscussionsCall(id[1])>>
                /\ channels' = subscribe(channels, DiscussionsChannel(id[1]))
      /\ UNCHANGED <<now, db, regs, notifs, comments, exploreVars, homeVars>>

\* `await` of the i-th fetchEvent call ends; an exception leaves the function at the
\* await, and nothing is set once the cleanup has cleared `mounted`
EventResolves(i, outcome) ==
  /\ i \in 1..Len(dcalls)
  /\ dcalls[i].op = "event"
  /\ dcalls' = RemoveAt(dcalls, i)
  /\ IF page = "details" /\ outcome = "error"
       THEN /\ errorMsg' = Some("message")
            /\ event' = None
            /\ loadingEvent' = FALSE
       ELSE IF page = "details" /\ outcome = "data"
       THEN /\ event' = Some(dcalls[i].id)
            /\ loadingEvent' = FALSE
            /\ UNCHANGED errorMsg
       ELSE UNCHANGED <<event, errorMsg, loadingEvent>>
  /\ UNCHANGED <<page, now, db, regs, notifs, channels, comments, safeId, discussions,
                 loadingDisc, dnotifs, exploreVars, homeVars>>

\* what fetchDiscussions sets once its await has ended with r
FetchedDiscussions(r) == IF r.outcome = "data" THEN r.rows ELSE <<>>

\* `await` of the i-th fetchDiscussions call ends; an exception leaves the function at
\* the await, and nothing is set once the cleanup has cleared `mounted`
DiscussionsResolves(i, r) ==
  /\ i \in 1..Len(dcalls)
  /\ dcalls[i].op = "discussions"
  /\ dcalls' = RemoveAt(dcalls, i)
  /\ IF page = "details" /\ r.outcome # "throw"
       THEN /\ discussions' = FetchedDiscussions(r)
            /\ loadingDisc' = FALSE
       ELSE UNCHANGED <<discussions, loadingDisc>>
  /\ UNCHANGED <<page, now, db, regs, notifs, channels, comments, safeId, event,
                 loadingEvent, errorMsg, dnotifs, exploreVars, homeVars>>

PrependedAtEnd(row, prev) == Append(prev, row)

\* what the channel's callback sets: [payload.new, ...prev]
Prepended(row, prev) == <<row>> \o prev

\* the channel's callback runs for the oldest payload
DiscussionNotified ==
  /\ dnotifs # <<>>
  /\ Subscribed(DiscussionsChannel(Head(dnotifs).event_id))
  /\ dnotifs' = Tail(dnotifs)
  /\ discussions' = IF page = "details" THEN Prepended(Head(dnotifs), discussions)
                                        ELSE discussions
  /\ UNCHANGED <<page, now, db, regs, notifs, channels, comments, safeId, event,
                 loadingEvent, errorMsg, loadingDisc, dcalls, exploreVars, homeVars>>

\* the screen is left: the effect's cleanup clears `mounted` and removes the channel
CloseDetails ==
  /\ page = "details"
  /\ page' = "closed"
  /\ channels' = IF safeId = None THEN channels
                 ELSE removeChannel(channels, DiscussionsChannel(safeId[1]))
  /\ dnotifs' = <<>>
  /\ UNCHANGED <<now, db, regs, notifs, comments, safeId, event, loadingEvent, errorMsg,
                 discussions, loadingDisc, dcalls, exploreVars, homeVars>>

\* rows that were in reddit_comments before the application was started, in no order
\* of created_utc
BacklogLen == DiscLimit - 1
Backlog == [k \in 1..BacklogLen |-> RedditRow(k, 1, k % 3)]

\* the number of rows inserted since
InsertedComments ==
  IF Len(comments) >= BacklogLen THEN Len(comments) - BacklogLen ELSE Len(comments)

\* a row is inserted into reddit_comments; its payload goes to every subscribed channel
\* whose filter it passes
InsertComment(eventId, created) ==
  LET row == RedditRow(Len(comments) + 1, eventId, created)
      listening == SelectSeq(channels, LAMBDA c : c.table = "reddit_comments"
                                                   /\ c.filter = Some(eventId))
  IN  /\ InsertedComments < MaxComments
      /\ comments' = Append(comments, row)
      /\ dnotifs' = dnotifs \o [k \in 1..Len(listening) |-> row]
      /\ UNCHANGED <<page, now, db, regs, notifs, channels, safeId, event, loadingEvent,
                     errorMsg, discussions, loadingDisc, dcalls, exploreVars, homeVars>>

-----------------------------------------------------------------------------
(* CreateEvent and Signup *)

EmptyFields == [title |-> <<>>, description |-> <<>>, location |-> <<>>]

\* !!title.trim() && !!description.trim() && !!location.trim()
canCreateEvent ==
  trim(fields.title) # <<>> /\ trim(fields.description) # <<>> /\ trim(fields.location) # <<>>

\* Alert.alert(title, ...)
Alert(title) == Append(alerts, title)

\* the other screens, the tables they read and the clock
screenVars == <<now, db, regs, notifs, channels, exploreVars, homeVars>>

\* the CreateEvent screen is mounted
OpenCreateEvent ==
  /\ page = "start"
  /\ page' = "createEvent"
  /\ fields' = EmptyFields
  /\ posterUrl' = None
  /\ posterUploading' = FALSE
  /\ saving' = FALSE
  /\ UNCHANGED <<alerts, mcalls, submitted, email, canRegister, signupLoading, screenVars>>

\* the TextInputs of title, description and location
SetFields(title, description, location) ==
  /\ page = "createEvent"
  /\ alerts = <<>>
  /\ fields' = [title |-> title, description |-> description, location |-> location]
  /\ fields' # fields
  /\ UNCHANGED <<page, alerts, mcalls, posterUrl, posterUploading, saving, submitted,
                 email, canRegister, signupLoading, screenVars>>

\* the upload button, up to the await of the upload: the permission asked for, the
\* image picked (a cancelled picker returns and changes nothing) and its bytes read
pickAndUploadPoster(permission, read) ==
  /\ page = "createEvent"
  /\ alerts = <<>>
  /\ ~posterUploading
  /\ IF permission # "granted"
       THEN /\ alerts' = Alert("Permission required")
            /\ UNCHANGED <<mcalls, posterUploading>>
       ELSE IF read = "throw"
       THEN /\ alerts' = Alert("Upload error")
            /\ UNCHANGED <<mcalls, posterUploading>>
       ELSE /\ posterUploading' = TRUE
            /\ mcalls' = Append(mcalls, [op |-> "upload", row |-> None])
            /\ UNCHANGED alerts
  /\ UNCHANGED <<page, fields, posterUrl, saving, submitted, email, canRegister,
                 signupLoading, screenVars>>

\* `await` of the i-th upload ends
UploadResolves(i, outcome) ==
  /\ i \in 1..Len(mcalls)
  /\ mcalls[i].op = "upload"
  /\ mcalls' = RemoveAt(mcalls, i)
  /\ alerts' = Alert(CASE outcome = "data" -> "Poster uploaded"
                       [] outcome = "error" -> "Upload failed"
                       [] outcome = "throw" -> "Upload error")
  /\ posterUrl' = IF outcome = "data" /\ page = "createEvent" THEN Some("publicUrl")
                                                                ELSE posterUrl
  /\ posterUploading' = (page # "createEvent" /\ posterUploading)
  /\ UNCHANGED <<page, fields, saving, submitted, email, canRegister, signupLoading,
                 screenVars>>

handleCreateEventWhileSaving(date) ==
  /\ page = "createEvent"
  /\ alerts = <<>>
  /\ canCreateEvent
  /\ Len(mcalls) < 2
  /\ date = "valid"
  /\ saving' = TRUE
  /\ mcalls' = Append(mcalls, [op |-> "insert",
                                row |-> Some([title |-> trim(fields.title),
                                              location |-> trim(fields.location),
                                              status |-> "pending",
                                              poster_url |-> posterUrl])])
  /\ UNCHANGED <<page, alerts, fields, posterUrl, posterUploading, submitted, email,
                 canRegister, signupLoading, screenVars>>

\* the Create button, up to the await of the insert.  With a selectedDate that makes
\* no date, isoFromDateAndHour throws (toISOString of an invalid Date): the catch block
\* alerts, the finally block clears saving, and no insert is issued
handleCreateEvent(date) ==
  /\ page = "createEvent"
  /\ alerts = <<>>
  /\ canCreateEvent /\ ~saving
  /\ Len(submitted) < MaxSubmits
  /\ IF date = "valid"
       THEN /\ saving' = TRUE
            /\ mcalls' = Append(mcalls, [op |-> "insert",
                                          row |-> Some([title |-> trim(fields.title),
                                                        location |-> trim(fields.location),
                                                        status |-> "pending",
                                                        poster_url |-> posterUrl])])
            /\ UNCHANGED alerts
       ELSE /\ saving' = FALSE
            /\ alerts' = Alert("Error")
            /\ UNCHANGED mcalls
  /\ UNCHANGED <<page, fields, posterUrl, posterUploading, submitted, email,
                 canRegister, signupLoading, screenVars>>

\* `await` of the i-th insert ends: the row is in the table and the form is reset, or
\* the failure is shown
CreateInsertResolves(i, outcome) ==
  /\ i \in 1..Len(mcalls)
  /\ mcalls[i].op = "insert"
  /\ mcalls' = RemoveAt(mcalls, i)
  /\ alerts' = Alert(IF outcome = "data" THEN "Success" ELSE "Error")
  /\ submitted' = IF outcome = "data" THEN Append(submitted, mcalls[i].row[1]) ELSE submitted
  /\ IF outcome = "data" /\ page = "createEvent"
       THEN fields' = EmptyFields /\ posterUrl' = None
       ELSE UNCHANGED <<fields, posterUrl>>
  /\ saving' = (page # "createEvent" /\ saving)
  /\ UNCHANGED <<page, posterUploading, email, canRegister, signupLoading, screenVars>>

\* the screen is left
CloseCreateEvent ==
  /\ page = "createEvent"
  /\ page' = "closed"
  /\ UNCHANGED <<formVars, screenVars>>

\* the Signup screen is mounted
OpenSignup ==
  /\ page = "start"
  /\ page' = "signup"
  /\ email' = ""
  /\ canRegister' = FALSE
  /\ signupLoading' = FALSE
  /\ UNCHANGED <<alerts, mcalls, fields, posterUrl, posterUploading, saving, submitted,
                 screenVars>>

\* the TextInputs of email, password and confirmPassword
SetCredentials(address, matching) ==
  /\ page = "signup"
  /\ alerts = <<>>
  /\ email' = address
  /\ canRegister' = (address # "" /\ matching)
  /\ email' # email \/ canRegister' # canRegister
  /\ UNCHANGED <<page, alerts, mcalls, fields, posterUrl, posterUploading, saving,
                 submitted, signupLoading, screenVars>>

\* lower.endsWith('@vitstudent.ac.in') || lower.endsWith('@gmail.com')
AllowedEmail(address) == address \in {"s@vitstudent.ac.in", "A@Gmail.com"}

\* the Register button, enabled by canRegister && !loading, up to the await of signUp
handleRegister ==
  /\ page = "signup"
  /\ alerts = <<>>
  /\ canRegister /\ ~signupLoading
  /\ IF AllowedEmail(email)
       THEN /\ signupLoading' = TRUE
            /\ mcalls' = Append(mcalls, [op |-> "signUp", row |-> None])
            /\ UNCHANGED alerts
       ELSE /\ alerts' = Alert("Error")
            /\ UNCHANGED <<mcalls, signupLoading>>
  /\ UNCHANGED <<page, fields, posterUrl, posterUploading, saving, submitted, email,
                 canRegister, screenVars>>

\* `await` of the i-th signUp ends: with a user the upsert of the profile begins,
\* without one the confirmation notice is shown, a failure is shown
SignUpResolves(i, outcome) ==
  /\ i \in 1..Len(mcalls)
  /\ mcalls[i].op = "signUp"
  /\ IF outcome = "user"
       THEN /\ mcalls' = Append(RemoveAt(mcalls, i), [op |-> "profile", row |-> None])
            /\ UNCHANGED <<alerts, signupLoading>>
       ELSE /\ mcalls' = RemoveAt(mcalls, i)
            /\ alerts' = Alert(CASE outcome = "no user" -> "Check your email"
                                 [] outcome = "error" -> "Signup error"
                                 [] outcome = "throw" -> "Error")
            /\ signupLoading' = (page # "signup" /\ signupLoading)
  /\ UNCHANGED <<page, fields, posterUrl, posterUploading, saving, submitted, email,
                 canRegister, screenVars>>

\* `await` of the i-th upsert of the profile ends: its error is only logged
ProfileResolves(i, outcome) ==
  /\ i \in 1..Len(mcalls)
  /\ mcalls[i].op = "profile"
  /\ mcalls' = RemoveAt(mcalls, i)
  /\ alerts' = Alert(IF outcome = "throw" THEN "Error" ELSE "Success")
  /\ signupLoading' = (page # "signup" /\ signupLoading)
  /\ UNCHANGED <<page, fields, posterUrl, posterUploading, saving, submitted, email,
                 canRegister, screenVars>>

\* the screen is left
CloseSignup ==
  /\ page = "signup"
  /\ page' = "closed"
  /\ UNCHANGED <<formVars, screenVars>>

\* the user closes the oldest dialog
DismissAlert ==
  /\ alerts # <<>>
  /\ alerts' = Tail(alerts)
  /\ UNCHANGED <<page, mcalls, fields, posterUrl, posterUploading, saving, submitted,
                 email, canRegister, signupLoading, screenVars>>

-----------------------------------------------------------------------------
(* App: the router of App.tsx, with the Login screen and the Signup screen as  *)
(* it composes them.  Login is given onLogin and onRegister, no onAdminLogin   *)
(* and no navigation; Signup reads only its navigation prop, which App does    *)
(* not pass.                                                                   *)

LoginEmails == {"", "s@vitstudent.ac.in", "A@Gmail.com", "admin@vitstudent.ac.in"}
PasswordInputs == {"", "pw"}

\* !!e && (e.toLowerCase().endsWith('@gmail.com') || e.toLowerCase().includes('admin'))
isAdminEmail(e) == e \in {"A@Gmail.com", "admin@vitstudent.ac.in"}

\* the rest of the app's state, which the router's own steps leave alone
routerOther ==
  <<now, db, regs, notifs, channels, exploreVars, homeVars, mcalls, fields, posterUrl,
    posterUploading, saving, submitted, email, canRegister, signupLoading>>

\* GetStarted's button: go('languageChoice')
handleGetStarted ==
  /\ currentPage = "getStarted"
  /\ currentPage' = "languageChoice"
  /\ UNCHANGED <<page, alerts, loginEmail, loginPassword, loginLoading, loginTimer,
                 routerOther>>

\* LanguageChoice's Next and Skip: go('login'); Login is mounted
handleLanguageChoiceNext ==
  /\ currentPage = "languageChoice"
  /\ currentPage' = "login"
  /\ loginEmail' = "" /\ loginPassword' = "" /\ loginLoading' = FALSE
  /\ UNCHANGED <<page, alerts, loginTimer, routerOther>>

\* Login's TextInputs
SetLoginFields(address, password) ==
  /\ currentPage = "login"
  /\ alerts = <<>>
  /\ loginEmail' = address /\ loginPassword' = password
  /\ <<loginEmail', loginPassword'>> # <<loginEmail, loginPassword>>
  /\ UNCHANGED <<page, alerts, currentPage, loginLoading, loginTimer, routerOther>>

\* Login's button, disabled while loading: the check of the fields, then
\* setTimeout(..., 600)
handleLogin ==
  /\ currentPage = "login"
  /\ alerts = <<>>
  /\ ~loginLoading
  /\ IF loginEmail = "" \/ loginPassword = ""
       THEN /\ alerts' = Alert("Error")
            /\ UNCHANGED <<loginLoading, loginTimer>>
       ELSE /\ loginLoading' = TRUE
            /\ loginTimer' = Some(loginEmail)
            /\ UNCHANGED alerts
  /\ UNCHANGED <<page, currentPage, loginEmail, loginPassword, routerOther>>

\* the timeout's callback: setLoading(false) and finishLogin(isAdminEmail(email)).  As
\* App composes Login, finishLogin calls onLogin() (App's handleLogin: go('homeUser'))
\* for a user who is no admin; for an admin there is no onAdminLogin and no navigation,
\* and what is left is the alert.  The timeout is not cleared when Login is left.
LoginTimerFires ==
  /\ loginTimer # None
  /\ loginTimer' = None
  /\ loginLoading' = (currentPage # "login" /\ loginLoading)
  /\ IF isAdminEmail(loginTimer[1])
       THEN /\ alerts' = Alert("Logged in (dummy)")
            /\ UNCHANGED <<currentPage, page>>
       ELSE /\ currentPage' = "homeUser"
            /\ page' = IF page = "signup" THEN "closed" ELSE page
            /\ UNCHANGED alerts
  /\ UNCHANGED <<loginEmail, loginPassword, routerOther>>

\* Login's Register link: onRegister() is App's handleLoginToSignup, go('signup');
\* Signup is mounted
handleLoginToSignup ==
  /\ currentPage = "login"
  /\ alerts = <<>>
  /\ currentPage' = "signup"
  /\ OpenSignup
  /\ UNCHANGED <<loginEmail, loginPassword, loginLoading, loginTimer>>

-----------------------------------------------------------------------------
(* The backend changes *)

\* a row of event_submissions is inserted
InsertEvent(id) ==
  /\ id \in RowIds \ db
  /\ db' = db \cup {id}
  /\ notifs' = Notify("event_submissions")
  /\ Len(notifs') <= MaxNotifs
  /\ UNCHANGED <<page, now, channels, regs, exploreVars, homeVars>>

\* a row of event_submissions is deleted
DeleteEvent(id) ==
  /\ id \in db
  /\ db' = db \ {id}
  /\ notifs' = Notify("event_submissions")
  /\ Len(notifs') <= MaxNotifs
  /\ UNCHANGED <<page, now, channels, regs, exploreVars, homeVars>>

-----------------------------------------------------------------------------
(* The specification of the screens *)

InitCore ==
  /\ page = "start"
  /\ now = Wed10
  /\ db = RowIds
  /\ regs = <<>>
  /\ searchText = <<>>
  /\ activeFilter = "all"
  /\ events = <<>>
  /\ loading = FALSE
  /\ debounceRef = 0
  /\ timers = {}
  /\ inflight = <<>>
  /\ notifs = <<>>
  /\ channels = <<>>
  /\ upcomingEvents = <<>>
  /\ trendingEvents = <<>>
  /\ loadingUpcoming = TRUE
  /\ loadingTrending = TRUE
  /\ hcalls = <<>>

InitObs ==
  /\ chg = 0
  /\ el = 0
  /\ vf = 0
  /\ textual = TRUE
  /\ lastq = None

InitPure ==
  /\ arg = None
  /\ res = None

InitDetails ==
  /\ safeId = None
  /\ event = None
  /\ loadingEvent = FALSE
  /\ errorMsg = None
  /\ discussions = <<>>
  /\ loadingDisc = FALSE
  /\ dcalls = <<>>
  /\ dnotifs = <<>>

InitForms ==
  /\ alerts = <<>>
  /\ mcalls = <<>>
  /\ fields = EmptyFields
  /\ posterUrl = None
  /\ posterUploading = FALSE
  /\ saving = FALSE
  /\ submitted = <<>>
  /\ email = ""
  /\ canRegister = FALSE
  /\ signupLoading = FALSE

\* the app has started: GetStarted is on display
InitNav ==
  /\ currentPage = "getStarted"
  /\ loginEmail = ""
  /\ loginPassword = ""
  /\ loginLoading = FALSE
  /\ loginTimer = None

\* no screen has been opened and reddit_comments is empty
InitScreens ==
  InitCore /\ InitObs /\ InitDetails /\ InitForms /\ InitNav /\ comments = <<>>

Init == InitScreens /\ InitPure

\* the steps of the Explore screen and of the backend
NextExplore ==
  \/ OpenExplore /\ UNCHANGED otherVars
  \/ \E text \in SearchInputs : SetSearchText(text) /\ UNCHANGED otherVars
  \/ \E filter \in FilterInputs : SetActiveFilter(filter) /\ UNCHANGED otherVars
  \/ ResetFilters /\ UNCHANGED otherVars
  \/ Tick /\ UNCHANGED otherVars
  \/ \E t \in timers : TimerFire(t) /\ UNCHANGED otherVars
  \/ ExploreNotified /\ UNCHANGED otherVars
  \/ \E i \in 1..Len(inflight) : \E r \in Responses(inflight[i].q) :
       FetchResolves(i, r) /\ UNCHANGED otherVars
  \/ CloseExplore /\ UNCHANGED otherVars
  \/ \E id \in ChangingRows : InsertEvent(id) /\ UNCHANGED otherVars
  \/ \E id \in ChangingRows : DeleteEvent(id) /\ UNCHANGED otherVars

\* the steps of the HomeUser screen
NextHome ==
  \/ OpenHomeUser /\ UNCHANGED otherVars
  \/ HomeNotified /\ UNCHANGED otherVars
  \/ \E i \in 1..Len(hcalls) : \E r \in Responses(hcalls[i].q) :
       UpcomingResolves(i, r) /\ UNCHANGED otherVars
  \/ \E i \in 1..Len(hcalls) : \E r \in ViewResponses :
       TrendingViewResolves(i, r) /\ UNCHANGED otherVars
  \/ \E i \in 1..Len(hcalls) : \E r \in Responses(hcalls[i].q) :
       \E registrations \in RegistrationResults :
         TrendingFallbackResolves(i, r, registrations) /\ UNCHANGED otherVars
  \/ \E eventId \in RowIds : handleJoin(eventId) /\ UNCHANGED otherVars
  \/ \E i \in 1..Len(hcalls) : \E outcome \in {"data", "error", "throw"} :
       JoinInsertResolves(i, outcome) /\ UNCHANGED otherVars
  \/ \E i \in 1..Len(hcalls) : \E r \in Responses(hcalls[i].q) :
       JoinEventsResolves(i, r) /\ UNCHANGED otherVars
  \/ \E i \in 1..Len(hcalls) : \E r \in ViewResponses :
       JoinTrendingResolves(i, r) /\ UNCHANGED otherVars
  \/ CloseHomeUser /\ UNCHANGED otherVars

Next == NextExplore \/ NextHome

vars == <<coreVars, obsVars, pureVars, detailVars, formVars, navVars>>

Spec == Init /\ [][Next]_vars

\* the Explore screen alone
SpecExplore == Init /\ [][NextExplore]_vars

\* the steps of the EventDetails screen and of table reddit_comments
NextDetails ==
  \/ \E raw \in RawIds : OpenDetails(raw) /\ UNCHANGED <<obsVars, pureVars, formVars, navVars>>
  \/ \E i \in 1..Len(dcalls) : \E outcome \in EventOutcomes(dcalls[i]) :
       EventResolves(i, outcome) /\ UNCHANGED <<obsVars, pureVars, formVars, navVars>>
  \/ \E i \in 1..Len(dcalls) : \E r \in DiscussionResponses(dcalls[i]) :
       DiscussionsResolves(i, r) /\ UNCHANGED <<obsVars, pureVars, formVars, navVars>>
  \/ DiscussionNotified /\ UNCHANGED <<obsVars, pureVars, formVars, navVars>>
  \/ CloseDetails /\ UNCHANGED <<obsVars, pureVars, formVars, navVars>>
  \/ \E eventId \in DetailIds : \E created \in CreatedInputs :
       InsertComment(eventId, created) /\ UNCHANGED <<obsVars, pureVars, formVars, navVars>>

\* reddit_comments is empty, or holds one row less for event 1 than the fetch loads
InitBacklog ==
  /\ InitCore /\ InitObs /\ InitPure /\ InitDetails /\ InitForms /\ InitNav
  /\ comments \in {<<>>, Backlog}

SpecDetails == InitBacklog /\ [][NextDetails]_vars

\* the steps of the three screens that subscribe to a channel; reddit_comments changes
\* once EventDetails has been opened
NextScreens ==
  \/ NextExplore
  \/ NextHome
  \/ \E raw \in RawIds : OpenDetails(raw) /\ UNCHANGED <<obsVars, pureVars, formVars, navVars>>
  \/ (page = "details" \/ dcalls # <<>>) /\ NextDetails

SpecScreens == Init /\ [][NextScreens]_vars

formOther == <<obsVars, pureVars, detailVars, navVars>>

\* the steps of the CreateEvent and Signup screens
NextForms ==
  \/ OpenCreateEvent /\ UNCHANGED formOther
  \/ \E title, description, location \in FieldInputs :
       SetFields(title, description, location) /\ UNCHANGED formOther
  \/ \E permission \in {"granted", "denied"} : \E read \in {"bytes", "throw"} :
       pickAndUploadPoster(permission, read) /\ UNCHANGED formOther
  \/ \E i \in 1..Len(mcalls) : \E outcome \in AwaitOutcomes :
       UploadResolves(i, outcome) /\ UNCHANGED formOther
  \/ \E date \in DateInputs : handleCreateEvent(date) /\ UNCHANGED formOther
  \/ \E i \in 1..Len(mcalls) : \E outcome \in AwaitOutcomes :
       CreateInsertResolves(i, outcome) /\ UNCHANGED formOther
  \/ CloseCreateEvent /\ UNCHANGED formOther
  \/ OpenSignup /\ UNCHANGED formOther
  \/ \E address \in EmailInputs : \E matching \in BOOLEAN :
       SetCredentials(address, matching) /\ UNCHANGED formOther
  \/ handleRegister /\ UNCHANGED formOther
  \/ \E i \in 1..Len(mcalls) : \E outcome \in {"user", "no user", "error", "throw"} :
       SignUpResolves(i, outcome) /\ UNCHANGED formOther
  \/ \E i \in 1..Len(mcalls) : \E outcome \in AwaitOutcomes :
       ProfileResolves(i, outcome) /\ UNCHANGED formOther
  \/ CloseSignup /\ UNCHANGED formOther
  \/ DismissAlert /\ UNCHANGED formOther

\* the screens on which the user changes the backend
NextMutations == NextHome \/ NextForms

SpecMutations == Init /\ [][NextMutations]_vars

\* the steps of the router, of Login and of Signup.  Signup's handlers call
\* navigation?.replace?.('HomeUser') and navigation?.navigate?.('Login') on a navigation
\* prop that is undefined here: they leave currentPage as it is
routerFrame == <<obsVars, pureVars, detailVars>>

NextNavigation ==
  \/ handleGetStarted /\ UNCHANGED routerFrame
  \/ handleLanguageChoiceNext /\ UNCHANGED routerFrame
  \/ \E address \in LoginEmails : \E password \in PasswordInputs :
       SetLoginFields(address, password) /\ UNCHANGED routerFrame
  \/ handleLogin /\ UNCHANGED routerFrame
  \/ LoginTimerFires /\ UNCHANGED routerFrame
  \/ handleLoginToSignup /\ UNCHANGED routerFrame
  \/ \E address \in EmailInputs : \E matching \in BOOLEAN :
       SetCredentials(address, matching) /\ UNCHANGED formOther
  \/ handleRegister /\ UNCHANGED formOther
  \/ \E i \in 1..Len(mcalls) : \E outcome \in {"user", "no user", "error", "throw"} :
       SignUpResolves(i, outcome) /\ UNCHANGED formOther
  \/ \E i \in 1..Len(mcalls) : \E outcome \in AwaitOutcomes :
       ProfileResolves(i, outcome) /\ UNCHANGED formOther
  \/ DismissAlert /\ UNCHANGED formOther

SpecNavigation == Init /\ [][NextNavigation]_vars

-----------------------------------------------------------------------------
(* The debounce observed: the same screen, with the bursts of filter-state    *)
(* changes and the visible fetches they cause recorded in chg, el, vf,       *)
(* textual and lastq.  A burst is a run of changes each less than 400 ms     *)
(* after the one before.                                                     *)

\* changes a burst is counted up to
BurstLen == 3

Min(a, b) == IF a <= b THEN a ELSE b

\* the visible fetch a step issued, if it issued one
IssuedVisible ==
  IF Len(inflight') > Len(inflight) /\ ~inflight'[Len(inflight')].bypass
    THEN Some(inflight'[Len(inflight')].q)
    ELSE None

ObserveChange ==
  LET continues == chg > 0 /\ el < DebounceMs
      before == IF continues THEN vf ELSE 0
  IN  /\ chg' = IF continues THEN Min(chg + 1, BurstLen) ELSE 1
      /\ el' = 0
      /\ vf' = Min(before + Len(IssuedVisible), BurstLen)
      /\ textual' = ((continues => textual) /\ searchText' # <<>>)
      /\ lastq' = IF IssuedVisible # None THEN IssuedVisible
                  ELSE IF continues THEN lastq ELSE None

ObserveTick ==
  /\ el' = Min(el + StepMs, DebounceMs)
  /\ UNCHANGED <<chg, vf, textual, lastq>>

ObserveFetch ==
  /\ vf' = Min(vf + Len(IssuedVisible), BurstLen)
  /\ lastq' = IF IssuedVisible # None THEN IssuedVisible ELSE lastq
  /\ UNCHANGED <<chg, el, textual>>

NextDebounce ==
  \/ OpenExplore /\ ObserveFetch /\ UNCHANGED <<pureVars, detailVars, formVars, navVars>>
  \/ \E text \in SearchInputs : SetSearchText(text) /\ ObserveChange
                                /\ UNCHANGED <<pureVars, detailVars, formVars, navVars>>
  \/ \E filter \in FilterInputs : SetActiveFilter(filter) /\ ObserveChange
                                    /\ UNCHANGED <<pureVars, detailVars, formVars, navVars>>
  \/ ResetFilters /\ ObserveChange /\ UNCHANGED <<pureVars, detailVars, formVars, navVars>>
  \/ Tick /\ ObserveTick /\ UNCHANGED <<pureVars, detailVars, formVars, navVars>>
  \/ \E t \in timers : TimerFire(t) /\ ObserveFetch /\ UNCHANGED <<pureVars, detailVars, formVars, navVars>>
  \/ \E i \in 1..Len(inflight) : \E r \in Responses(inflight[i].q) :
       FetchResolves(i, r) /\ UNCHANGED otherVars

SpecDebounce == Init /\ [][NextDebounce]_vars

-----------------------------------------------------------------------------
(* The pure functions of the screens, applied in isolation: the arguments are  *)
(* drawn at the start and the function is applied to them, while the screens   *)
(* stay closed.                                                                *)

\* the sequences over S of length at most n
SeqsUpTo(S, n) == UNION {[1..k -> S] : k \in 0..n}

\* ---- the fallback path of loadTrending ----

\* events the fallback's events query may return
MaxEvents == 9
\* rows of the registrations table
MaxRegs == 3

\* a row of select('id,title,start_time,tags,location')
EventRow(id) ==
  [id |-> id, title |-> <<"e">>, start_time |-> Wed10, tags |-> None, location |-> <<"x">>]

\* event_id values of registrations for n events: 0 is null, n + 1 is an event not fetched
EventIdsFor(n) == 0..(n + 1)

InitTrend ==
  /\ InitScreens
  /\ \E n \in 0..MaxEvents : \E registrations \in SeqsUpTo(EventIdsFor(n), MaxRegs) :
       arg = <<[i \in 1..n |-> EventRow(i)], registrations>>
  /\ res = None

ApplyTrendingFallback ==
  /\ res = None
  /\ res' = Some(TrendingFallback(arg[1], arg[2]))
  /\ UNCHANGED <<coreVars, obsVars, detailVars, formVars, navVars, arg>>

SpecTrend == InitTrend /\ [][ApplyTrendingFallback]_vars

\* ---- the text predicate of fetchEvents ----

MaxTextLen == 3
TextChars == {" ", "a", "A"}

InitQuery ==
  /\ InitScreens
  /\ \E filter \in FILTERS : \E text \in SeqsUpTo(TextChars, MaxTextLen) :
       arg = <<filter, text>>
  /\ res = None

ApplyExploreQuery ==
  /\ res = None
  /\ res' = Some(ExploreQuery(arg[1], arg[2], now))
  /\ UNCHANGED <<coreVars, obsVars, detailVars, formVars, navVars, arg>>

SpecQuery == InitQuery /\ [][ApplyExploreQuery]_vars

\* ---- buildTimeRange ----

\* the current instant lies in day 0..MaxDay; day 0 is a Sunday
MaxDay == 13
TimesOfDay == {0, 1, 12 * Hour, EndOfDayMs}

\* the instant of <<key, day, time of day>>
InstantOf(a) == a[2] * MsPerDay + a[3]

InitRange ==
  /\ InitScreens
  /\ \E key \in TimeKeys : \E d \in 0..MaxDay : \E tod \in TimesOfDay :
       arg = <<key, d, tod>>
  /\ res = None

ApplyBuildTimeRange ==
  /\ res = None
  /\ res' = buildTimeRange(arg[1], InstantOf(arg))
  /\ UNCHANGED <<coreVars, obsVars, detailVars, formVars, navVars, arg>>

SpecRange == InitRange /\ [][ApplyBuildTimeRange]_vars

\* ---- the normalizers of fetchEvents and loadUpcoming ----

MaxTags == 2

Str_object_Object ==
  <<"[", "o", "b", "j", "e", "c", "t", " ", "O", "b", "j", "e", "c", "t", "]">>

\* values a JSON tag list may hold: strings, a number, null, an object, an array ["Ta"]
TagValues ==
  {StrVal(<<"T", "a">>), StrVal(<<"a">>),
   JsValue("number", <<"0">>),
   JsValue("object", <<"n", "u", "l", "l">>),
   JsValue("object", Str_object_Object),
   JsValue("object", <<"T", "a">>)}

TagLists == {None} \cup {Some(l) : l \in SeqsUpTo(TagValues, MaxTags)}

RawRows ==
  {[id |-> 1, status |-> "approved", title |-> <<"A", "b">>, location |-> <<"x">>,
    start_time |-> st, tags |-> tl] : st \in {NullTime, Wed10}, tl \in TagLists}
  \cup
  {[id |-> 1, status |-> "approved", title |-> <<"A", "b">>, location |-> <<"x">>,
    start_time |-> st, tags |-> tl, time |-> Some(<<"6", "p", "m">>)] :
      st \in {NullTime, Wed10}, tl \in TagLists}

\* the normalizer of a screen
Normalizer(screen, row) ==
  IF screen = "explore" THEN NormalizeExploreRow(row) ELSE NormalizeUpcomingRow(row)

InitNorm ==
  /\ InitScreens
  /\ \E screen \in {"explore", "homeUser"} : \E row \in RawRows : arg = <<screen, row>>
  /\ res = <<>>

\* the normalizer applied to the raw row, then to what it returned
ApplyNormalizer ==
  /\ Len(res) < 2
  /\ res' = Append(res, Normalizer(arg[1], IF res = <<>> THEN arg[2] ELSE res[Len(res)]))
  /\ UNCHANGED <<coreVars, obsVars, detailVars, formVars, navVars, arg>>

SpecNorm == InitNorm /\ [][ApplyNormalizer]_vars

-----------------------------------------------------------------------------
(* Claims *)

VisibleInFlight == {i \in 1..Len(inflight) : ~inflight[i].bypass}

\* what the debounce does once a burst of three changes is over: nothing was fetched
\* while the timer ran, and when it is due exactly one fetch is issued, for the final
\* filter state
DebouncedOnce ==
  /\ el < DebounceMs =>
       /\ vf = 0
       /\ \E t \in timers : timers = {t} /\ t.left = DebounceMs - el
  /\ el = DebounceMs =>
       \/ vf = 0 /\ \E t \in timers : timers = {t} /\ t.left = 0
       \/ /\ vf = 1
          /\ timers = {}
          /\ lastq = Some(ExploreQuery(activeFilter, searchText, now))

\* C1 as stated: three filter-state changes (search text and/or filter key) within 400 ms
\* of each other produce exactly one fetch, with the final filter state, 400 ms after the
\* last change.
C1_AnyBurstFetchesOnce == (page = "explore" /\ chg = BurstLen) => DebouncedOnce

\* C1 amended: three filter-state changes within 400 ms of each other, each of which
\* leaves the search text non-empty, produce exactly one fetch, with the final filter
\* state, issued 400 ms after the last change.
C1_TextBurstFetchesOnce == (page = "explore" /\ chg = BurstLen /\ textual) => DebouncedOnce

C1_Witness ==
  /\ page = "explore" /\ chg = BurstLen /\ textual
  /\ el = DebounceMs /\ vf = 1 /\ activeFilter # "all"

\* a step in which the channel's callback ran
NotifiedStep ==
  /\ page = "explore" /\ page' = "explore"
  /\ notifs # <<>> /\ notifs' = Tail(notifs)
  /\ activeFilter' = activeFilter /\ searchText' = searchText

\* a step in which the i-th suspended call, a background one, completed
BackgroundDoneStep(i) ==
  /\ page = "explore"
  /\ inflight[i].bypass
  /\ inflight' = RemoveAt(inflight, i)

\* C2 amended: each realtime notification on event_submissions while the screen is
\* active triggers exactly one background refetch (fetchEvents with bypassLoading), and
\* neither issuing that refetch nor its completion, on success or on failure, changes the
\* loading flag.
C2_BackgroundRefetch ==
  [][/\ NotifiedStep =>
          /\ inflight' = Append(inflight, FetchCall(activeFilter, searchText, TRUE))
          /\ loading' = loading
     /\ \A i \in 1..Len(inflight) : BackgroundDoneStep(i) => loading' = loading]_vars

\* C2 as stated: in addition the loading flag keeps its value for as long as that
\* refetch is in flight.
C2_LoadingFrozenWhileBackground ==
  [][/\ NotifiedStep =>
          /\ inflight' = Append(inflight, FetchCall(activeFilter, searchText, TRUE))
          /\ loading' = loading
     /\ \A i \in 1..Len(inflight) : BackgroundDoneStep(i) => loading' = loading
     /\ (/\ page = "explore"
         /\ \E i \in 1..Len(inflight) : inflight[i].bypass
         /\ Len(inflight') >= Len(inflight)) => loading' = loading]_vars

C2_Witness ==
  /\ page = "explore"
  /\ loading
  /\ \E i \in 1..Len(inflight) : inflight[i].bypass
  /\ VisibleInFlight # {}

\* C3 as stated: at most one visible fetch (a fetchEvents call that sets the loading
\* flag) is in flight per screen instance.
C3_OneVisibleFetch == Cardinality(VisibleInFlight) <= 1

\* C3 amended: at most one debounce timer is pending per screen instance (a new
\* filter-state change cancels and replaces the pending timer); visible fetches already
\* in flight are not cancelled and may overlap.
C3_OneDebounceTimer == Cardinality(timers) <= 1

C3_Witness ==
  /\ page = "explore"
  /\ Cardinality(timers) = 1
  /\ Cardinality(VisibleInFlight) = 2

InsideWindow(list, range) ==
  \A k \in 1..Len(list) :
    range.start <= list[k].start_time /\ list[k].start_time <= range.end

\* C6 as stated: whenever a relative time key is the active filter, every event of the
\* rendered list has its start_time inside the window of that key.
C6_ListInsideActiveWindow ==
  (page = "explore" /\ activeFilter \in TimeKeys)
    => InsideWindow(events, buildTimeRange(activeFilter, now)[1])

\* C6 amended: every list that a fetch issued under a relative time key installs has
\* only events whose start_time is inside the [start, end] window of that key, computed
\* when the fetch was issued; the rendered list may still be the result of an earlier
\* filter state.
C6_FetchedInsideIssuedWindow ==
  [][\A i \in 1..Len(inflight) :
       (/\ page = "explore"
        /\ inflight[i].filter \in TimeKeys
        /\ inflight' = RemoveAt(inflight, i))
         => InsideWindow(events', buildTimeRange(inflight[i].filter, inflight[i].at)[1])]_vars

C6_Witness ==
  /\ page = "explore"
  /\ activeFilter = "today"
  /\ inflight = <<>>
  /\ Len(events) = 1
  /\ 1 \in db

\* the suspended HomeUser calls whose query reads event_submissions
EventQueryCalls ==
  {i \in 1..Len(hcalls) : hcalls[i].op \in {"upcoming", "trendingFallback", "joinEvents"}}

\* C4: every query issued against event_submissions to fill an event list restricts
\* status to approved or pending, and neither the Explore list nor the HomeUser
\* upcoming list ever holds an event of another status.
C4_StatusRestricted ==
  /\ \A i \in 1..Len(inflight) : inflight[i].q.statusIn = Some(AllowedStatus)
  /\ \A i \in EventQueryCalls : hcalls[i].q.statusIn = Some(AllowedStatus)
  /\ \A k \in 1..Len(events) : Catalog[events[k].id].status \in AllowedStatus
  /\ \A k \in 1..Len(upcomingEvents) : Catalog[upcomingEvents[k].id].status \in AllowedStatus

C4_Witness ==
  /\ page = "homeUser"
  /\ \A k \in 1..Len(upcomingEvents) : "status" \notin DOMAIN upcomingEvents[k]
  /\ 3 \in db /\ Catalog[3].status = "rejected" /\ Catalog[3].start_time >= now
  /\ Len(upcomingEvents) = 2
  /\ Len(regs) = 1
  /\ hcalls = <<>>

SortedByStart(list) ==
  \A j, k \in 1..Len(list) : j < k => list[j].start_time <= list[k].start_time

\* C5: in every reachable state Explore's events and HomeUser's upcomingEvents are
\* sorted by start_time ascending, also after the refresh of a successful join.
C5_ListsSorted == SortedByStart(events) /\ SortedByStart(upcomingEvents)

\* number of entries of r whose event_id is id
Occurrences(r, id) == Cardinality({j \in 1..Len(r) : r[j] = id})

\* C7: the output of the trending fallback holds only events of E, each once and at
\* most 8 of them, each with registration_count equal to the number of entries of R
\* with its id, sorted by registration_count descending; registrations of no event of
\* E add no entry, and no event left out has a higher count than one that is kept.
C7_TrendingFallback ==
  res # None =>
    LET E == arg[1]
        R == arg[2]
        out == res[1]
        kept == {out[k].id : k \in 1..Len(out)}
    IN  /\ Len(out) = Min(Len(E), TopN)
        /\ \A k \in 1..Len(out) : \E i \in 1..Len(E) : E[i].id = out[k].id
        /\ \A j, k \in 1..Len(out) : out[j].id = out[k].id => j = k
        /\ \A k \in 1..Len(out) : out[k].registration_count = Occurrences(R, out[k].id)
        /\ \A j, k \in 1..Len(out) :
             j < k => out[j].registration_count >= out[k].registration_count
        /\ \A i \in 1..Len(E) :
             E[i].id \notin kept =>
               \A k \in 1..Len(out) : out[k].registration_count >= Occurrences(R, E[i].id)

C7_Witness ==
  /\ res # None
  /\ Len(arg[1]) = TopN + 1 /\ Len(res[1]) = TopN
  /\ arg[2] = <<TopN + 2, TopN + 1, 0>>
  /\ res[1][1].id = TopN + 1 /\ res[1][1].registration_count = 1

\* term is text without the whitespace at its ends
IsTrimOf(term, text) ==
  /\ term # <<>> => term[1] \notin Whitespace /\ term[Len(term)] \notin Whitespace
  /\ \E i \in 0..Len(text) :
       /\ i + Len(term) <= Len(text)
       /\ SubSeq(text, i + 1, i + Len(term)) = term
       /\ \A j \in (1..i) \cup ((i + Len(term) + 1)..Len(text)) : text[j] \in Whitespace

C9_WindowBounds ==
  res # None =>
    LET key == arg[1]
        d == arg[2]
        w == res[1]
    IN  /\ w.start <= w.end
        /\ key = "today" =>
             w.start = d * MsPerDay /\ w.end = d * MsPerDay + EndOfDayMs
        /\ key = "tomorrow" =>
             w.start = (d + 1) * MsPerDay /\ w.end = (d + 1) * MsPerDay + EndOfDayMs

C9_Witness ==
  /\ res # None
  /\ arg = <<"tomorrow", 6, EndOfDayMs>>
  /\ res[1].start = 7 * MsPerDay

\* C10: normalization is idempotent: the normalizer applied to what it returned for a
\* raw row returns the same object, also when the tag list holds non-string values.
C10_NormalizeIdempotent == Len(res) = 2 => res[2] = res[1]

\* the responses of a failed fetch: an error result, a thrown exception
Failures == {[outcome |-> o, rows |-> <<>>] : o \in {"error", "throw"}}

\* C11: in Explore, whenever a fetch fails (an error result or an exception) the event
\* list becomes empty and, for a visible fetch, the loading flag returns to false.
C11_FailedFetchEmptiesList ==
  [][\A i \in 1..Len(inflight) : \A r \in Failures :
       (page = "explore" /\ FetchResolves(i, r))
         => /\ events' = <<>>
            /\ ~inflight[i].bypass => loading' = FALSE]_vars

\* every query the user can build matches row 2, which is never deleted: once the
\* fetches have resolved the list is empty only after a failure
C11_Witness ==
  /\ page = "explore"
  /\ 2 \in db
  /\ inflight = <<>>
  /\ events = <<>>
  /\ ~loading

\* C12: in the trending fallback path, when the events sub-fetch or the registrations
\* sub-fetch returns an error that collection counts as empty and the path completes:
\* trendingEvents is set to the ranking of what was fetched (no event, or every event
\* with count 0 in the order fetched) and loadingTrending ends false.
C12_FallbackSurvivesErrors ==
  [][\A i \in 1..Len(hcalls) : \A r \in Responses(hcalls[i].q) :
       (/\ page = "homeUser"
        /\ \/ r.outcome = "error" /\ \E g \in RegistrationResults :
                                       TrendingFallbackResolves(i, r, g)
           \/ r.outcome = "data" /\ TrendingFallbackResolves(i, r, <<>>))
         => /\ loadingTrending' = FALSE
            /\ r.outcome = "error" => trendingEvents' = <<>>
            /\ r.outcome = "data" =>
                 /\ Len(trendingEvents') = Min(Len(r.rows), TopN)
                 /\ \A k \in 1..Len(trendingEvents') :
                      /\ trendingEvents'[k].id = r.rows[k].id
                      /\ trendingEvents'[k].registration_count = 0]_vars

\* the view lists the rejected row 3 as well: a list of rows 1 and 2 with no count,
\* while a registration exists, was set by the fallback path
C12_Witness ==
  /\ page = "homeUser"
  /\ ~loadingTrending
  /\ regs # <<>>
  /\ Len(trendingEvents) = 2
  /\ \A k \in 1..Len(trendingEvents) :
       trendingEvents[k].id # 3 /\ trendingEvents[k].registration_count = 0

\* C13: when the backend call of a background list-population fetch returns an error or
\* throws, the screen ends with the list empty (the event at its default) and the
\* loading flag false; stated here for the two fetches of EventDetails.
C13_FailedFetchEndsLoading ==
  [][\A i \in 1..Len(dcalls) :
       /\ \A r \in Failures :
            (page = "details" /\ DiscussionsResolves(i, r))
              => discussions' = <<>> /\ loadingDisc' = FALSE
       /\ \A outcome \in {"error", "throw"} :
            (page = "details" /\ EventResolves(i, outcome))
              => event' = None /\ loadingEvent' = FALSE]_vars

\* C14: every failed user-initiated mutation (the insert of a created event, a join, a
\* poster upload, a sign-up) results in a user-visible alert.
C14_FailedMutationAlerts ==
  [][\A outcome \in {"error", "throw"} :
       /\ \A i \in 1..Len(mcalls) :
            (\/ CreateInsertResolves(i, outcome)
             \/ UploadResolves(i, outcome)
             \/ SignUpResolves(i, outcome))
              => Len(alerts') = Len(alerts) + 1
       /\ \A i \in 1..Len(hcalls) :
            JoinInsertResolves(i, outcome) => Len(alerts') = Len(alerts) + 1]_vars

\* the channels the client holds are those of the screen on display
ChannelsOfPage ==
  /\ channels = CASE page = "explore" -> <<ExploreChannel>>
                  [] page = "homeUser" -> <<UpcomingChannel, RegistrationsChannel>>
                  [] page = "details" /\ safeId # None -> <<DiscussionsChannel(safeId[1])>>
                  [] OTHER -> <<>>
  /\ page \notin {"explore", "homeUser", "details"} => notifs = <<>> /\ dnotifs = <<>>

\* no list of a screen that was left changes, and no fetch begins for it
FrozenOnceClosed ==
  page = "closed"
    => /\ UNCHANGED <<events, upcomingEvents, trendingEvents, event, discussions>>
       /\ Len(inflight') <= Len(inflight)
       /\ Len(hcalls') <= Len(hcalls)
       /\ Len(dcalls') <= Len(dcalls)

\* C15: for Explore, HomeUser and EventDetails, every channel the screen subscribed is
\* removed when the screen is left (in Explore also before the channel of a new filter
\* state is subscribed), and after that no notification starts a fetch or changes a list
\* of the screen.
C15_ChannelsRemoved == [][ChannelsOfPage' /\ FrozenOnceClosed]_vars

\* Explore was left showing row 1, which has since been deleted
C15_Witness ==
  /\ page = "closed"
  /\ channels = <<>>
  /\ 1 \notin db
  /\ \E k \in 1..Len(events) : events[k].id = 1

\* the list shows the rows of response r, in the order of the response
ShowsRowsOf(list, r) ==
  /\ Len(list) = Len(r.rows)
  /\ \A k \in 1..Len(list) : list[k].id = r.rows[k].id

\* C16: when several Explore fetches overlap, each response that resolves replaces the
\* list, whatever the order the fetches were issued in, and nothing else changes the
\* list: once all have resolved it shows the result of the fetch that resolved last, and
\* no response is discarded as superseded.
C16_LastResponseWins ==
  [][page = "explore"
       => /\ \A i \in 1..Len(inflight) : \A r \in Responses(inflight[i].q) :
               FetchResolves(i, r) => ShowsRowsOf(events', r)
          /\ events' # events
               => \E i \in 1..Len(inflight) : \E r \in Responses(inflight[i].q) :
                    FetchResolves(i, r)]_vars

\* the fetch for 'today' was issued after the fetch for 'all' and both have resolved;
\* the list holds row 1, which starts next week
C16_Witness ==
  /\ page = "explore"
  /\ activeFilter = "today" /\ searchText = <<>>
  /\ inflight = <<>> /\ timers = {} /\ notifs = <<>>
  /\ \E k \in 1..Len(events) : events[k].id = 1

\* no timer, fetch or notification of the Explore screen is pending
Quiescent == page = "explore" /\ inflight = <<>> /\ timers = {} /\ notifs = <<>>

\* the list shows what the query for the current filter state selects from the table
ShowsFinalResult(list) ==
  \E r \in Responses(ExploreQuery(activeFilter, searchText, now)) :
    r.outcome = "data" /\ ShowsRowsOf(list, r)

Listed(row, list) == \E k \in 1..Len(list) : list[k] = row

\* C18: in EventDetails every discussion item inserted for the event after the channel
\* was subscribed is in the list once the initial fetch and all notifications have been
\* processed; an item whose notification arrived before the response of the initial
\* fetch is still there after the response is applied.
C18_NoInsertLost ==
  [][\A i \in 1..Len(dcalls) : \A r \in DiscussionResponses(dcalls[i]) :
       (/\ page = "details"
        /\ DiscussionsResolves(i, r)
        /\ r.outcome = "data"
        /\ dnotifs = <<>>)
         => \A n \in (dcalls[i].issued + 1)..Len(comments) :
              comments[n].event_id = dcalls[i].id => Listed(comments[n], discussions')]_vars

\* the list is in descending order of created_utc
NewestFirst(list) ==
  \A k \in 1..(Len(list) - 1) : list[k].created_utc >= list[k + 1].created_utc

\* C19: the initial fetch of EventDetails loads at most 200 discussion items of the event
\* in descending order of created_utc; each INSERT notification after it puts the new
\* item at index 0, keeps the order of the others and makes the list one longer, whether
\* or not an item of the same id is already there.
C19_FetchThenPrepend ==
  [][page = "details"
       => /\ \A i \in 1..Len(dcalls) : \A r \in DiscussionResponses(dcalls[i]) :
               (DiscussionsResolves(i, r) /\ r.outcome = "data")
                 => /\ Len(discussions') <= DiscLimit
                    /\ NewestFirst(discussions')
                    /\ \A k \in 1..Len(discussions') :
                         discussions'[k].event_id = dcalls[i].id
          /\ DiscussionNotified
               => /\ Len(discussions') = Len(discussions) + 1
                  /\ discussions'[1] = Head(dnotifs)
                  /\ \A k \in 1..Len(discussions) : discussions'[k + 1] = discussions[k]]_vars

\* the fetch loaded 200 of the 201 rows of event 1, the two inserted rows among them, and
\* the notification of the later one then put it in front a second time
C19_Witness ==
  /\ page = "details"
  /\ Len(comments) = BacklogLen + 2
  /\ Len(discussions) = DiscLimit + 1
  /\ discussions[1] = comments[BacklogLen + 2]
  /\ Listed(comments[BacklogLen + 1], Tail(discussions))
  /\ Listed(comments[BacklogLen + 2], Tail(discussions))
  /\ NewestFirst(Tail(discussions))

\* C20 as stated: in every reachable state the discussion list of EventDetails is in
\* descending order of created_utc.
C20_AlwaysNewestFirst == page = "details" => NewestFirst(discussions)

\* the callback is about to put an item in front of a newer one
OlderItemNotified ==
  /\ DiscussionNotified
  /\ discussions # <<>>
  /\ Head(dnotifs).created_utc < discussions[1].created_utc

\* C20 amended: a list in descending order of created_utc stays in that order through
\* every fetch response and every notification, except a notification whose item is
\* older than the first item of the list.
C20_NewestFirstUnlessOlderItem ==
  [][(page = "details" /\ NewestFirst(discussions) /\ ~OlderItemNotified)
       => NewestFirst(discussions')]_vars

\* two notifications were applied before the response of the initial fetch, the newer
\* item last
C20_Witness ==
  /\ page = "details"
  /\ \E i \in 1..Len(dcalls) : dcalls[i].op = "discussions"
  /\ Len(discussions) = 2
  /\ discussions[1].created_utc > discussions[2].created_utc

\* a step of the mounted Explore screen that changes the filter key
FilterKeyStep == page = "explore" /\ page' = "explore" /\ activeFilter' # activeFilter

\* the step issued the visible fetch for the new filter state, and no other
FetchedAtOnce ==
  inflight' = Append(inflight, FetchCall(activeFilter', searchText', FALSE))

\* C21 as stated: in Explore a change of the filter key issues a fetch at once, without
\* the 400 ms debounce, whatever the search text.
C21_FilterKeyFetchesAtOnce == [][FilterKeyStep => FetchedAtOnce]_vars

\* C21 amended: a change of the filter key issues a fetch at once, and sets no timer,
\* when it leaves the search text empty; with a non-empty search text it issues no fetch
\* and sets the one 400 ms timer, like a change of the text.
C21_FilterKeyFetchesAtOnceWithoutText ==
  [][FilterKeyStep =>
       IF searchText' = <<>>
         THEN FetchedAtOnce /\ timers' = {}
         ELSE /\ inflight' = inflight
              /\ \E t \in timers' :
                   /\ timers' = {t}
                   /\ t.left = DebounceMs
                   /\ t.filter = activeFilter' /\ t.text = searchText']_vars

\* the filter key 'tech' with the search text 'a': the timer runs and nothing is fetched
C21_Witness ==
  /\ page = "explore"
  /\ activeFilter = "tech" /\ searchText = <<"a">>
  /\ \E t \in timers : t.left = DebounceMs /\ t.filter = "tech"
  /\ inflight = <<>>

\* a step of the mounted Explore screen that issues a query carrying the non-empty
\* search text on display
IssuesTextQuery ==
  /\ page = "explore"
  /\ Len(inflight') = Len(inflight) + 1
  /\ searchText' # <<>>
  /\ inflight'[Len(inflight')].text = searchText'

\* C22 as stated: after the search text changes to a non-empty value no query carrying
\* that text is issued until 400 ms have passed without a further filter-state change,
\* also when realtime notifications arrive in that interval (while the timer set by the
\* last change still runs).
C22_NoTextQueryBeforeDebounce ==
  [][IssuesTextQuery => \A t \in timers : t.left = 0]_vars

\* C22 amended: no visible fetch carrying that text is issued before the timer set by
\* the last filter-state change is due, and the fetch the timer issues is for the filter
\* state on display; a notification issues a background fetch for the filter state on
\* display at once.
C22_NoVisibleTextFetchBeforeDebounce ==
  [][IssuesTextQuery =>
       LET call == inflight'[Len(inflight')]
       IN  IF call.bypass
             THEN /\ notifs # <<>> /\ notifs' = Tail(notifs)
                  /\ call.filter = activeFilter
             ELSE \E t \in timers :
                    /\ t.left = 0
                    /\ timers' = timers \ {t}
                    /\ t.text = searchText /\ t.filter = activeFilter
                    /\ call.filter = activeFilter]_vars

\* the mount fetch has not resolved, 'a' was typed and its timer still runs, and a
\* background fetch carrying 'a' is already in flight
C22_Witness ==
  /\ page = "explore"
  /\ searchText = <<"a">>
  /\ loading
  /\ Len(inflight) = 2
  /\ ~inflight[1].bypass /\ inflight[1].text = <<>>
  /\ inflight[2].bypass /\ inflight[2].text = <<"a">>
  /\ \E t \in timers : t.left > 0

\* C23 as stated: in every reachable state of Explore the loading flag is true exactly
\* when at least one visible fetch is in flight.
C23_LoadingIffVisibleInFlight ==
  page = "explore" => (loading <=> VisibleInFlight # {})

\* C23 amended: the loading flag is true only while a visible fetch is in flight; it
\* becomes true only when a visible fetch is issued and false only when a visible fetch
\* resolves, whichever resolves first (with overlapping visible fetches it is false
\* while the other one is still unresolved).
C23_LoadingFollowsLastVisibleStep ==
  [][page' = "explore" =>
       /\ loading' => VisibleInFlight' # {}
       /\ (loading' /\ ~loading)
            => /\ Len(inflight') = Len(inflight) + 1
               /\ ~inflight'[Len(inflight')].bypass
       /\ (loading /\ ~loading')
            => \E i \in VisibleInFlight : inflight' = RemoveAt(inflight, i)
       /\ (\E i \in VisibleInFlight : inflight' = RemoveAt(inflight, i)) => ~loading'
       /\ (Len(inflight') = Len(inflight) + 1 /\ ~inflight'[Len(inflight')].bypass)
            => loading']_vars

\* one of two overlapping visible fetches has resolved: the indicator is off while the
\* other one is still in flight
C23_Witness ==
  /\ page = "explore"
  /\ ~loading
  /\ VisibleInFlight # {}

\* a step in which a callback of one of HomeUser's channels ran and began its reloads
HomeNotifiedStep ==
  /\ page = "homeUser" /\ page' = "homeUser"
  /\ notifs # <<>> /\ notifs' = Tail(notifs)
  /\ Len(hcalls') > Len(hcalls)

\* C24: in HomeUser a realtime notification on event_submissions or on registrations
\* triggers a background refetch that leaves the loading flags loadingUpcoming and
\* loadingTrending unchanged.
C24_NotificationKeepsLoadingFlags ==
  [][HomeNotifiedStep => UNCHANGED <<loadingUpcoming, loadingTrending>>]_vars

\* the day (counted from the Sunday of instant 0) an instant falls on
DayOf(t) == t \div MsPerDay

\* getDay() is 0 on a Sunday and 1 on a Monday
IsSunday(d) == d % 7 = 0
IsMonday(d) == d % 7 = 1

C26_NextWeekMondayToSunday ==
  (res # None /\ arg[1] = "nextWeek") =>
    LET d == arg[2]
        w == res[1]
        m == DayOf(w.start)
    IN  /\ w.start = m * MsPerDay
        /\ IsMonday(m)
        /\ d < m /\ m <= d + 7
        /\ IsMonday(d) => m = d + 7
        /\ w.end = (m + 6) * MsPerDay + EndOfDayMs
        /\ IsSunday(DayOf(w.end))

\* nextWeek computed on a Monday at noon: the window starts on the Monday after
C26_Witness ==
  /\ res # None
  /\ arg = <<"nextWeek", 8, 12 * Hour>>
  /\ res[1].start = 15 * MsPerDay
  /\ res[1].end = 21 * MsPerDay + EndOfDayMs

\* the nextWeek window computed at the instant of arg
NextWeekOfArg == buildTimeRange("nextWeek", InstantOf(arg))[1]

C28_OneTimePredicateAndTagForCategory ==
  res # None =>
    LET filter == arg[1]
        q == res[1]
        relative == filter \in {"today", "tomorrow", "thisWeek", "nextWeek"}
        category == filter \in {"sports", "tech", "cultural", "workshops", "hackathons"}
    IN  /\ q.gte # None
        /\ relative => /\ q.lte # None
                       /\ q.gte[1] <= q.lte[1]
        /\ ~relative => q.lte = None /\ q.gte = Some(now)
        /\ category <=> q.contains # None
        /\ category => q.contains = Some(KeyChars(filter))
        /\ ~(q.lte # None /\ q.contains # None)

\* the query for the key hackathons with a search text: open-ended in time, with the
\* tag predicate
C28_Witness ==
  /\ res # None
  /\ arg = <<"hackathons", <<"a">>>>
  /\ res[1].gte = Some(now) /\ res[1].lte = None
  /\ res[1].contains = Some(<<"h", "a", "c", "k", "a", "t", "h", "o", "n", "s">>)

\* the inserts of handleCreateEvent that have not resolved
InsertsInFlight == {i \in 1..Len(mcalls) : mcalls[i].op = "insert"}

\* C29: in CreateEvent at most one insert issued by handleCreateEvent is in flight at
\* any time, and saving is true exactly while it is: it is false again after every exit
\* of the handler (success, backend error, exception, a date that is none), and no
\* step issues an insert while saving is true.
C29_OneInsertInFlight ==
  [][/\ Cardinality(InsertsInFlight') <= 1
     /\ page' = "createEvent" => (saving' <=> InsertsInFlight' # {})
     /\ (page = "createEvent" /\ saving)
          => Cardinality(InsertsInFlight') <= Cardinality(InsertsInFlight)
     /\ (page = "createEvent" /\ Cardinality(InsertsInFlight') < Cardinality(InsertsInFlight))
          => ~saving' /\ Len(alerts') = Len(alerts) + 1]_vars

\* the handler has exited with a failure: the alert is up, saving is false and the form
\* is as it was
C29_Witness ==
  /\ page = "createEvent"
  /\ canCreateEvent
  /\ alerts = <<"Error">>
  /\ ~saving /\ ~posterUploading
  /\ mcalls = <<>> /\ submitted = <<>>

\* a step in which the timeout of a submitted login ran
LoginCompletes == loginTimer # None /\ loginTimer' = None

\* a step in which the sign-up ended in success: the profile was upserted for the user
\* signUp returned and the Success alert was raised
SignUpSucceeds ==
  /\ page = "signup"
  /\ \E i \in 1..Len(mcalls) : mcalls[i].op = "profile" /\ mcalls' = RemoveAt(mcalls, i)
  /\ alerts' = Alert("Success")

\* C30: in the app as App.tsx composes it, every login submitted with a non-empty email
\* and password, whatever the address, and every successful sign-up makes currentPage
\* homeUser.
C30_AuthenticationReachesHome ==
  [][(LoginCompletes \/ SignUpSucceeds) => currentPage' = "homeUser"]_vars
=============================================================================
